---- MODULE Spec2Model ----
(***************************************************************************)
(* Model of the BOM PDF -> "Spreadsheet of Variants" pipeline of           *)
(* src/YOC-YNCA/test.py (the later generation) and src/YOC-YNCA/multi.py   *)
(* (the earlier one).                                                      *)
(*                                                                         *)
(* Four parts of the program are modelled as state machines:               *)
(*   - the Reconciler, write_combined_excel (variables of the first        *)
(*     VARIABLES group), one step per entry of the build loop and one      *)
(*     step for segmentation + grouping + flattening;                      *)
(*   - the parser, parse_bom_pdf, one step per page and per table row;     *)
(*   - main, one step per -s argument and one for the call of the writer;  *)
(*   - the metadata extractor, parse_pdf_metadata, one step for the call.  *)
(*                                                                         *)
(* Text is modelled in two ways.  Merge keys, part numbers, notes and      *)
(* names of the Reconciler are TLA+ strings, concatenated with \o exactly  *)
(* as the f-strings of make_key concatenate them.  Cell text of the        *)
(* parser is a sequence of one-character strings, so that the regular      *)
(* expressions of the code are computed character by character.           *)
(***************************************************************************)
EXTENDS Integers, Sequences, FiniteSets, TLC

VARIABLES
    nsheets,        \* len(sheets): the number of variants handed to write_combined_excel
    sheets,         \* sheets[v+1]: the entries of variant v consumed by the build loop so far
    vi,             \* loop variable vi of the build loop (0-based, as in the code)
    seq_counter,    \* seq_counter
    parts,          \* parts: key string -> merged part record (the entry's fields + qtys)
    initial_order,  \* initial_order: keys in first-seen order
    segments,       \* segments (set by Finish)
    name_order,     \* name_order (set by Finish)
    ordered_keys,   \* ordered_keys (set by Finish)
    pc,             \* "build" while the build loop runs, "done" after the final order is computed
    \* parse_bom_pdf
    gen,            \* which script runs: "later" (test.py) or "early" (multi.py)
    p_pc,           \* "run" inside parse_bom_pdf, "end" once it returned, "error" once it raised
    entries,        \* entries
    in_table,       \* the current page has a table and a header row: its data rows are being read
    deleted_idxs,   \* deleted_idxs of the current page
    cmap,           \* cmap of the current page
    pending,        \* rows of the page's table after the header row that are already known
    row,            \* the row the loop body ran on last (<<>> before the first)
    npages,         \* pages opened so far
    nrows,          \* rows the loop body ran on so far
    page,           \* the page opened last (its marks and its first table)
    \* main
    m_pc,           \* "idle" outside main, "loop" in `for var, pdf in args.sheet`,
                    \* "exit" after sys.exit(1), "raised" after an uncaught exception,
                    \* "written" once write_combined_excel was called
    m_args,         \* args.sheet: for each -s argument, what its PDF path leads to
    m_i,            \* arguments the loop has passed
    m_sheets,       \* sheets (the entries element of each tuple)
    m_out,          \* the sheets argument write_combined_excel was called with
    \* parse_pdf_metadata
    md_pc,          \* "idle" outside parse_pdf_metadata, "call" on entry, "returned" after
    md_pages,       \* page.extract_text() of each page of the document (NullCell for None)
    md_out          \* the tuple returned (None before the return)

rvars == <<nsheets, sheets, vi, seq_counter, parts, initial_order,
           segments, name_order, ordered_keys, pc>>

pvars == <<gen, p_pc, entries, in_table, deleted_idxs, cmap, pending, row, npages, nrows, page>>

mvars == <<m_pc, m_args, m_i, m_sheets, m_out, md_pc, md_pages, md_out>>

vars == <<rvars, pvars, mvars>>

(***************************************************************************)
(* Bounds of the model.                                                    *)
(***************************************************************************)
MaxVariants == 2    \* at most this many variants (documents) per run
MaxEntries == 4     \* at most this many entries over all variants of a run
MaxPages == 2       \* at most this many pages per document
MaxRows == 2        \* at most this many data rows per document
MaxArgs == 3        \* at most this many -s arguments on the command line
MaxTextLines == 3   \* at most this many lines of text on a page

(***************************************************************************)
(* Quantities.  Python's None is the empty tuple, a number n is <<n>>.     *)
(***************************************************************************)
None == << >>

Num(n) == <<n>>

(***************************************************************************)
(* The entries parse_bom_pdf hands to the Reconciler (test.py 261-273).    *)
(* drawing_no, display_name and flag_note_used are derived as the parser   *)
(* derives them; note_norm is the value normalize_note gave for note.      *)
(***************************************************************************)
Entry(l, pn, note, nn, name, chg, q, ml) ==
    [level |-> l,
     part_name |-> name,
     display_name |-> IF note # "" THEN note ELSE name,
     note |-> note,
     note_norm |-> nn,
     part_number |-> pn,
     drawing_no |-> pn,
     change |-> chg,
     quantity |-> q,
     flag_multiline_en |-> ml,
     flag_note_used |-> (note # "")]

\* Entries whose texts are ordinary part numbers and notes.
PlainEntries ==
    { Entry(1, "A", "", "", "Clip", "0", Num(3), FALSE),
      Entry(1, "A", "", "", "Tape", "2", Num(-3), TRUE),
      Entry(1, "A", "B", "b", "Clip", "0", Num(3), FALSE),
      Entry(1, "B", "", "", "Tape", "0", Num(3), FALSE),
      Entry(2, "A", "", "", "Wire", "0", Num(3), FALSE),
      Entry(2, "A", "", "", "Wire", "0", None, FALSE) }

\* Entries whose part number or note contains a separator of make_key.
KeyEntries ==
    { Entry(1, "A@@n=b", "", "", "Clip", "0", Num(3), FALSE),
      Entry(1, "A", "b@@n=", "b@@n=", "Clip", "0", Num(3), FALSE),
      Entry(1, "A", "b@@v0@@i1", "b@@v0@@i1", "Clip", "0", Num(3), FALSE),
      Entry(2, "A@@n=b", "", "", "Wire", "0", Num(3), FALSE) }

(***************************************************************************)
(* make_key: the merge key of entry r, seen as entry number seq of the     *)
(* run, in variant v.                                                      *)
(***************************************************************************)
make_key(r, v, seq) ==
    IF r.level = 1
    THEN r.part_number \o "@@n=" \o r.note_norm
    ELSE r.part_number \o "@@v" \o ToString(v) \o "@@i" \o ToString(seq)

(***************************************************************************)
(* One iteration of the build loop (test.py 306-320) for entry r of        *)
(* variant v, on the mapping p and the first-seen order o.                 *)
(***************************************************************************)
\* Mutant: the quantity vector is seeded with zeros.
SeedPartZero(r, n) ==
    r @@ [qtys |-> [i \in 1..n |-> Num(0)]]

SeedPart(r, n) ==
    r @@ [qtys |-> [i \in 1..n |-> None]]

\* Mutant: the slot is overwritten with the entry's quantity, not summed.
AddQtyOverwrite(existing, q_add) == q_add

AddQty(existing, q_add) ==
    LET new_total == (IF existing = None THEN 0 ELSE existing[1]) + q_add[1]
    IN  IF new_total = 0 THEN None ELSE Num(new_total)

\* Mutant: the quantity goes into the first slot, whatever the variant.
BuildPartsFirstSlot(p, r, v, key, n) ==
    LET p1 == IF key \in DOMAIN p THEN p ELSE p @@ (key :> SeedPart(r, n))
    IN  IF r.quantity # None
        THEN [p1 EXCEPT ![key].qtys[1] = AddQty(p1[key].qtys[1], r.quantity)]
        ELSE p1

\* Mutant: every sighting of a key overwrites the part's fields with the entry's.
BuildPartsLastWins(p, r, v, key, n) ==
    LET p1 == IF key \in DOMAIN p
              THEN [p EXCEPT ![key] = r @@ [qtys |-> p[key].qtys]]
              ELSE p @@ (key :> SeedPart(r, n))
        existing == p1[key].qtys[v + 1]
    IN  IF r.quantity # None
        THEN [p1 EXCEPT ![key].qtys[v + 1] = AddQty(existing, r.quantity)]
        ELSE p1

BuildParts(p, r, v, key, n) ==
    LET p1 == IF key \in DOMAIN p THEN p ELSE p @@ (key :> SeedPart(r, n))
        existing == p1[key].qtys[v + 1]
    IN  IF r.quantity # None
        THEN [p1 EXCEPT ![key].qtys[v + 1] = AddQty(existing, r.quantity)]
        ELSE p1

InSeq(x, s) == \E i \in 1..Len(s) : s[i] = x

BuildOrder(o, key) ==
    IF InSeq(key, o) THEN o ELSE Append(o, key)

(***************************************************************************)
(* A whole call of write_combined_excel on the list shs (test.py 294-320): *)
(* the locals at entry, and the build loop over every variant and entry.   *)
(***************************************************************************)
\* Mutant: the counter keeps its value from the previous call.
StaleRun == [parts |-> << >>, order |-> << >>, seq |-> seq_counter]

\* parts = {}, initial_order = [], seq_counter = 0
FreshRun == [parts |-> << >>, order |-> << >>, seq |-> 0]

RECURSIVE BuildEntries(_, _, _, _, _)
BuildEntries(st, ents, i, v, n) ==
    IF i > Len(ents)
    THEN st
    ELSE LET key == make_key(ents[i], v, st.seq)
         IN  BuildEntries([parts |-> BuildParts(st.parts, ents[i], v, key, n),
                           order |-> BuildOrder(st.order, key),
                           seq |-> st.seq + 1],
                          ents, i + 1, v, n)

RECURSIVE BuildSheets(_, _, _)
BuildSheets(st, shs, v) ==
    IF v >= Len(shs)
    THEN st
    ELSE BuildSheets(BuildEntries(st, shs[v + 1], 1, v, Len(shs)), shs, v + 1)

BuildLoop(shs) == BuildSheets(FreshRun, shs, 0)

(***************************************************************************)
(* Segmentation (test.py 322-333): runs of initial_order, a new run at     *)
(* every key whose merged part is level 1.                                 *)
(***************************************************************************)
RECURSIVE SegLoop(_, _, _, _, _)
SegLoop(p, keys, i, segs, current) ==
    IF i > Len(keys)
    THEN IF current # << >> THEN Append(segs, current) ELSE segs
    ELSE IF p[keys[i]].level = 1
         THEN SegLoop(p, keys, i + 1,
                      IF current # << >> THEN Append(segs, current) ELSE segs,
                      <<keys[i]>>)
         ELSE SegLoop(p, keys, i + 1, segs, Append(current, keys[i]))

\* Mutant: the run still open when the loop ends is not appended.
RECURSIVE SegLoopNoTail(_, _, _, _, _)
SegLoopNoTail(p, keys, i, segs, current) ==
    IF i > Len(keys)
    THEN segs
    ELSE IF p[keys[i]].level = 1
         THEN SegLoopNoTail(p, keys, i + 1,
                            IF current # << >> THEN Append(segs, current) ELSE segs,
                            <<keys[i]>>)
         ELSE SegLoopNoTail(p, keys, i + 1, segs, Append(current, keys[i]))

SegmentNoTail(p, keys) == SegLoopNoTail(p, keys, 1, << >>, << >>)

\* Mutant: every key opens a new run, whatever its level.
SegmentEveryKey(p, keys) == [i \in 1..Len(keys) |-> <<keys[i]>>]

Segment(p, keys) == SegLoop(p, keys, 1, << >>, << >>)

(***************************************************************************)
(* Grouping by the head's canonical part_name (test.py 335-343) and the    *)
(* final order (test.py 345-349).                                          *)
(***************************************************************************)
RECURSIVE NameOrderLoop(_, _, _, _)
NameOrderLoop(p, segs, i, names) ==
    IF i > Len(segs)
    THEN names
    ELSE LET name == p[segs[i][1]].part_name
         IN  NameOrderLoop(p, segs, i + 1,
                           IF InSeq(name, names) THEN names ELSE Append(names, name))

NameOrder(p, segs) == NameOrderLoop(p, segs, 1, << >>)

RECURSIVE SegsOfName(_, _, _, _)
SegsOfName(p, segs, i, name) ==
    IF i > Len(segs)
    THEN << >>
    ELSE IF p[segs[i][1]].part_name = name
         THEN <<segs[i]>> \o SegsOfName(p, segs, i + 1, name)
         ELSE SegsOfName(p, segs, i + 1, name)

SegByName(p, segs, name) == SegsOfName(p, segs, 1, name)

RECURSIVE Flatten(_)
Flatten(ss) ==
    IF ss = << >> THEN << >> ELSE Head(ss) \o Flatten(Tail(ss))

RECURSIVE FinalLoop(_, _, _, _)
FinalLoop(p, segs, names, i) ==
    IF i > Len(names)
    THEN << >>
    ELSE Flatten(SegByName(p, segs, names[i])) \o FinalLoop(p, segs, names, i + 1)

\* Mutant: the runs are flattened in first-seen order, not grouped by name.
FinalOrderUngrouped(p, segs, names) == Flatten(segs)

FinalOrder(p, segs, names) == FinalLoop(p, segs, names, 1)

(***************************************************************************)
(* Text of the parser: a string is a sequence of characters, a character   *)
(* is a one-character TLA+ string, or "U+xxxx" for a non-ASCII code point. *)
(* The classes below are those of Python's str methods and of the re       *)
(* module on str patterns, on the characters of the alphabet.              *)
(*   U+90E8 U+54C1 U+540D U+6B20 U+56F3 U+5099 U+8003 : CJK ideographs     *)
(*   U+3000 : ideographic space      U+FF21 / U+FF41 : fullwidth A / a     *)
(*   U+FF11 : fullwidth digit one    U+00C9 / U+00E9 : E / e with acute    *)
(***************************************************************************)
Lowers == <<"a", "b", "c", "d", "e", "f", "g", "h", "i", "j", "k", "l", "m",
            "n", "o", "p", "q", "r", "s", "t", "u", "v", "w", "x", "y", "z">>

Uppers == <<"A", "B", "C", "D", "E", "F", "G", "H", "I", "J", "K", "L", "M",
            "N", "O", "P", "Q", "R", "S", "T", "U", "V", "W", "X", "Y", "Z">>

DigitChars == <<"0", "1", "2", "3", "4", "5", "6", "7", "8", "9">>

Range(s) == { s[i] : i \in 1..Len(s) }

SetMax(S) == CHOOSE x \in S : \A y \in S : y <= x

AsciiLower == Range(Lowers)

AsciiUpper == Range(Uppers)

AsciiDigit == Range(DigitChars)

CJK == {"U+90E8", "U+54C1", "U+540D", "U+6B20", "U+56F3", "U+5099", "U+8003"}

NonAscii == CJK \cup {"U+3000", "U+FF21", "U+FF41", "U+FF11", "U+00C9", "U+00E9"}

\* [A-Za-z]
IsAsciiLetter(c) == c \in AsciiLower \cup AsciiUpper

\* JAPANESE_RE: [U+3000-U+30FF, U+4E00-U+9FAF]
IsJapanese(c) == c \in CJK \cup {"U+3000"}

\* str.isspace: what strip() and split() remove
IsSpace(c) == c \in {" ", "\n", "\t", "U+3000"}

\* \d of a str pattern: the Unicode decimal digits
IsReDigit(c) == c \in AsciiDigit \cup {"U+FF11"}

DigitVal(c) == IF c = "U+FF11" THEN 1 ELSE (CHOOSE i \in 1..10 : DigitChars[i] = c) - 1

\* str.isalpha
IsAlpha(c) == c \in AsciiLower \cup AsciiUpper \cup CJK \cup {"U+FF21", "U+FF41", "U+00C9", "U+00E9"}

IsUpperCh(c) == c \in AsciiUpper \cup {"U+FF21", "U+00C9"}

IsLowerCh(c) == c \in AsciiLower \cup {"U+FF41", "U+00E9"}

LowerCh(c) ==
    IF c \in AsciiUpper THEN Lowers[CHOOSE i \in 1..26 : Uppers[i] = c]
    ELSE IF c = "U+FF21" THEN "U+FF41"
    ELSE IF c = "U+00C9" THEN "U+00E9"
    ELSE c

UpperCh(c) ==
    IF c \in AsciiLower THEN Uppers[CHOOSE i \in 1..26 : Lowers[i] = c]
    ELSE IF c = "U+FF41" THEN "U+FF21"
    ELSE IF c = "U+00E9" THEN "U+00C9"
    ELSE c

\* unicodedata.normalize("NFKC", .) on one character
NfkcCh(c) ==
    IF c = "U+FF21" THEN "A"
    ELSE IF c = "U+FF41" THEN "a"
    ELSE IF c = "U+FF11" THEN "1"
    ELSE IF c = "U+3000" THEN " "
    ELSE c

Lower(s) == [i \in 1..Len(s) |-> LowerCh(s[i])]

Upper(s) == [i \in 1..Len(s) |-> UpperCh(s[i])]

normalize_text(s) == [i \in 1..Len(s) |-> NfkcCh(s[i])]

\* str.strip()
Strip(s) ==
    LET keep == { i \in 1..Len(s) : ~IsSpace(s[i]) }
    IN  IF keep = {} THEN << >>
        ELSE SubSeq(s, CHOOSE i \in keep : \A j \in keep : i <= j,
                       CHOOSE i \in keep : \A j \in keep : j <= i)

StartsWith(s, t) == Len(t) <= Len(s) /\ SubSeq(s, 1, Len(t)) = t

EndsWith(s, t) == Len(t) <= Len(s) /\ SubSeq(s, Len(s) - Len(t) + 1, Len(s)) = t

\* t in s
Contains(s, t) == \E i \in 0..(Len(s) - Len(t)) : SubSeq(s, i + 1, i + Len(t)) = t

\* The pieces of s between the characters of seps (empty pieces included).
RECURSIVE SplitAt(_, _, _, _)
SplitAt(s, seps, i, cur) ==
    IF i > Len(s)
    THEN <<cur>>
    ELSE IF s[i] \in seps
         THEN <<cur>> \o SplitAt(s, seps, i + 1, << >>)
         ELSE SplitAt(s, seps, i + 1, Append(cur, s[i]))

NonEmpty(t) == t # << >>

\* [ln.strip() for ln in s.splitlines() if ln.strip()]
StrippedLines(s) ==
    LET pieces == SplitAt(s, {"\n"}, 1, << >>)
    IN  SelectSeq([i \in 1..Len(pieces) |-> Strip(pieces[i])], NonEmpty)

\* str.split()
SplitWords(s) == SelectSeq(SplitAt(s, {" ", "\n", "\t", "U+3000"}, 1, << >>), NonEmpty)

\* sep.join(ss)
RECURSIVE Join(_, _)
Join(ss, sep) ==
    IF ss = << >> THEN << >>
    ELSE IF Len(ss) = 1 THEN ss[1]
    ELSE ss[1] \o sep \o Join(Tail(ss), sep)

\* A cell the table extraction left empty (Python None); never a cell's text.
NullCell == <<"None-cell">>

\* str(cell)
Str(cell) == IF cell = NullCell THEN <<"N", "o", "n", "e">> ELSE cell

\* clean_cell
clean_cell(cell) ==
    IF cell = NullCell THEN << >>
    ELSE Strip([i \in 1..Len(cell) |-> IF cell[i] = "\n" THEN " " ELSE cell[i]])

IsAsciiCh(c) == c \notin NonAscii

\* strip_non_ascii
strip_non_ascii(s) == SelectSeq(s, IsAsciiCh)

\* re.sub(r'[^A-Za-z]', '', s)
LettersOnly(s) == SelectSeq(s, IsAsciiLetter)

\* JAPANESE_RE.search(s)
HasJapanese(s) == \E i \in 1..Len(s) : IsJapanese(s[i])

\* The maximal runs of \d characters of s, in order: re.findall(r"\d+", s)
RECURSIVE DigitRuns(_, _, _)
DigitRuns(s, i, cur) ==
    IF i > Len(s)
    THEN IF cur = << >> THEN << >> ELSE <<cur>>
    ELSE IF IsReDigit(s[i])
         THEN DigitRuns(s, i + 1, Append(cur, s[i]))
         ELSE (IF cur = << >> THEN << >> ELSE <<cur>>) \o DigitRuns(s, i + 1, << >>)

FindAllDigits(s) == DigitRuns(s, 1, << >>)

\* int(ds) for a run of digits ds
RECURSIVE DigitsValue(_)
DigitsValue(ds) ==
    IF ds = << >> THEN 0
    ELSE 10 * DigitsValue(SubSeq(ds, 1, Len(ds) - 1)) + DigitVal(ds[Len(ds)])

AllDigits(s) == s # << >> /\ \A i \in 1..Len(s) : IsReDigit(s[i])

\* re.match(r"^\d+(?:\.\d+)?$", s) on a stripped s
IsDottedIndex(s) ==
    \/ AllDigits(s)
    \/ \E d \in 2..(Len(s) - 1) :
           /\ s[d] = "."
           /\ AllDigits(SubSeq(s, 1, d - 1))
           /\ AllDigits(SubSeq(s, d + 1, Len(s)))

\* parse_index_int: the leading integer of idx_text, or None
parse_index_int(idx_text) ==
    LET t == Strip(idx_text)
        runs == FindAllDigits(t)
    IN  IF t # << >> /\ IsReDigit(t[1]) THEN Num(DigitsValue(runs[1])) ELSE None

(***************************************************************************)
(* Program constants of the parser.                                        *)
(***************************************************************************)
CUT_THRESHOLD == 3          \* test.py: CUT_THRESHOLD

CUT_THRESHOLD_EARLY == 4    \* multi.py: CUT_THRESHOLD

ACRONYM_EARLY == 3          \* multi.py: len(w) <= 3

HeaderScanRows == 6         \* tbl[:6]

FallbackHeaderRow == 2      \* default of next(...)

DefaultPartNumberCol == 6   \* cmap.setdefault('part_number', 6)

DefaultPartNameCol == 19    \* cmap.setdefault('part_name', 19)

GutterLimit == 103          \* ch.get('x0', 9999) < 103

NoCol == -1                 \* a role mapped to None in cmap

(***************************************************************************)
(* Words of the code, as character sequences.                              *)
(***************************************************************************)
W_level == <<"l", "e", "v", "e", "l">>

W_part_number == <<"p", "a", "r", "t", " ", "n", "u", "m", "b", "e", "r">>

W_part_name == <<"p", "a", "r", "t", " ", "n", "a", "m", "e">>

W_qty == <<"q", "t", "y">>

W_change == <<"c", "h", "a", "n", "g", "e">>

W_rev == <<"r", "e", "v">>

W_note == <<"n", "o", "t", "e">>

W_bi == <<"U+5099">>

W_outline == <<"o", "u", "t", "l", "i", "n", "e", " ", "d", "r", "a", "w", "i", "n", "g">>

W_in == <<"i", "n">>

W_preparation == <<"p", "r", "e", "p", "a", "r", "a", "t", "i", "o", "n">>

W_ketsuzu == <<"U+6B20", "U+56F3">>

(***************************************************************************)
(* Deletion Detector: get_deleted_indices (test.py 84-121).  A mark is a   *)
(* line, curve or glyph of the page with its colour, its x0 and the text   *)
(* that page.crop(...).extract_text() returns for its strip ("" when the   *)
(* extraction returns nothing).                                            *)
(***************************************************************************)
Mark(kind, red, x0, strip) == [kind |-> kind, red |-> red, x0 |-> x0, strip |-> strip]

MarkCounts(m) ==
    /\ m.red
    /\ m.kind = "char" => m.x0 < GutterLimit
    /\ FindAllDigits(m.strip) # << >>

\* Mutant: the numbers flagged on the pages before stay in the set.
get_deleted_indicesKept(marks) ==
    { DigitsValue(FindAllDigits(m.strip)[1]) : m \in { x \in marks : MarkCounts(x) } }
        \cup deleted_idxs

get_deleted_indices(marks) ==
    { DigitsValue(FindAllDigits(m.strip)[1]) : m \in { x \in marks : MarkCounts(x) } }

(***************************************************************************)
(* Table Locator (test.py 144-173).  Rows and cells are numbered from 0 in *)
(* the code: cell ci of a row is row[ci + 1] here.                         *)
(***************************************************************************)
Cell(r, ci) == r[ci + 1]

AnyCellStartsWith(r, w) ==
    \E ci \in 0..(Len(r) - 1) : StartsWith(Lower(clean_cell(Cell(r, ci))), w)

IsHeaderRow(r) == AnyCellStartsWith(r, W_level) /\ AnyCellStartsWith(r, W_part_number)

\* hdr_i: the first header row among the first 6 rows, else 2
FindHeader(tbl) ==
    LET hits == { i \in 0..(Len(tbl) - 1) : i < HeaderScanRows /\ IsHeaderRow(tbl[i + 1]) }
    IN  IF hits # {} THEN CHOOSE i \in hits : \A j \in hits : i <= j
        ELSE FallbackHeaderRow

\* The role the if/elif chain of the column map gives to a header text.
RoleOf(txt) ==
    IF Contains(txt, W_part_number) THEN "part_number"
    ELSE IF Contains(txt, W_part_name) THEN "part_name"
    ELSE IF Contains(txt, W_qty) THEN "quantity"
    ELSE IF Contains(txt, W_change) \/ StartsWith(txt, W_rev) THEN "change"
    ELSE IF Contains(txt, W_note) \/ Contains(txt, W_bi) THEN "note"
    ELSE "none"

\* The column cmap holds for a role after the loop over hdr: each matching
\* cell assigns cmap[role] = ci, so the last one stays; else the default.
ColumnOf(hdr, role, default) ==
    LET hits == { ci \in 0..(Len(hdr) - 1) : RoleOf(Lower(clean_cell(Cell(hdr, ci)))) = role }
    IN  IF hits # {} THEN SetMax(hits) ELSE default

BuildCmap(hdr) ==
    [part_number |-> ColumnOf(hdr, "part_number", DefaultPartNumberCol),
     part_name |-> ColumnOf(hdr, "part_name", DefaultPartNameCol),
     quantity |-> ColumnOf(hdr, "quantity", NoCol),
     change |-> ColumnOf(hdr, "change", NoCol),
     note |-> ColumnOf(hdr, "note", NoCol)]

\* The text of the mapped column of a row: clean_cell(row[c]) if the role
\* is mapped and c < len(row), else "".
MappedText(r, c) == IF c # NoCol /\ c < Len(r) THEN clean_cell(Cell(r, c)) ELSE << >>

(***************************************************************************)
(* Note handling (test.py 64-81).                                          *)
(***************************************************************************)
\* Mutant: the pattern is matched without re.IGNORECASE.
MatchesTrivialCaseSensitive(n) ==
    LET rest == IF StartsWith(n, W_ketsuzu) THEN Strip(SubSeq(n, 3, Len(n))) ELSE n
        mid == SubSeq(rest, 3, Len(rest) - Len(W_preparation))
    IN  /\ Len(rest) >= Len(W_in) + 1 + Len(W_preparation)
        /\ StartsWith(rest, W_in)
        /\ EndsWith(rest, W_preparation)
        /\ \A i \in 1..Len(mid) : IsSpace(mid[i])

\* _TRIVIAL_NOTE_REGEX.match(n), n stripped: ^\s*(ketsuzu\s*)?(in\s+preparation)\s*$
MatchesTrivial(n) ==
    LET l == Lower(n)
        rest == IF StartsWith(l, W_ketsuzu) THEN Strip(SubSeq(l, 3, Len(l))) ELSE l
        mid == SubSeq(rest, 3, Len(rest) - Len(W_preparation))
    IN  /\ Len(rest) >= Len(W_in) + 1 + Len(W_preparation)
        /\ StartsWith(rest, W_in)
        /\ EndsWith(rest, W_preparation)
        /\ \A i \in 1..Len(mid) : IsSpace(mid[i])

is_trivial_note(note) ==
    IF note = << >> THEN FALSE
    ELSE LET n == Strip(normalize_text(note))
         IN  MatchesTrivial(n) \/ n = W_ketsuzu

\* re.sub(r"\s+", " ", s)
RECURSIVE CollapseSpaces(_, _)
CollapseSpaces(s, i) ==
    IF i > Len(s) THEN << >>
    ELSE IF IsSpace(s[i])
         THEN (IF i > 1 /\ IsSpace(s[i - 1]) THEN << >> ELSE <<" ">>) \o CollapseSpaces(s, i + 1)
         ELSE <<s[i]>> \o CollapseSpaces(s, i + 1)

\* s.strip(" ;:-")
StripChars(s, cs) ==
    LET keep == { i \in 1..Len(s) : s[i] \notin cs }
    IN  IF keep = {} THEN << >>
        ELSE SubSeq(s, CHOOSE i \in keep : \A j \in keep : i <= j,
                       CHOOSE i \in keep : \A j \in keep : j <= i)

normalize_note(s) ==
    IF s = << >> \/ is_trivial_note(s) THEN << >>
    ELSE Lower(StripChars(CollapseSpaces(Strip(normalize_text(s)), 1), {" ", ";", ":", "-"}))

(***************************************************************************)
(* Row Normalizer of the later generation (test.py 176-273).               *)
(***************************************************************************)
\* idx = clean_cell(row[0])
RowIndex(r) == clean_cell(Cell(r, 0))

\* Mutant: only an empty index cell is rejected.
BadIndexEmptyOnly(r) == RowIndex(r) = << >>

\* test.py 178 and multi.py 107: the row is no data row
BadIndex(r) == RowIndex(r) = << >> \/ ~IsDottedIndex(RowIndex(r))

\* Mutant: the whole index is looked up, so a sub-indexed row is never flagged.
RowDeletedWholeIndex(r, deleted) ==
    AllDigits(RowIndex(r)) /\ DigitsValue(RowIndex(r)) \in deleted

\* test.py 182-184: the row is flagged deleted
RowDeleted(r, deleted) ==
    LET idx_int == parse_index_int(RowIndex(r))
    IN  idx_int # None /\ idx_int[1] \in deleted

\* Mutant: a row without a level mark gets level 0.
RowLevelZero(r) ==
    LET hits == { ci \in 1..5 : ci < Len(r) /\ clean_cell(Cell(r, ci)) # << >> }
    IN  IF hits # {} THEN CHOOSE ci \in hits : \A cj \in hits : ci <= cj ELSE 0

\* test.py 187-190
RowLevel(r) ==
    LET hits == { ci \in 1..5 : ci < Len(r) /\ clean_cell(Cell(r, ci)) # << >> }
    IN  IF hits # {} THEN CHOOSE ci \in hits : \A cj \in hits : ci <= cj ELSE 1

\* test.py 193-194: raw_lines_all
RawLines(r, cm) ==
    StrippedLines(IF cm.part_name < Len(r) THEN Str(Cell(r, cm.part_name)) ELSE << >>)

\* Mutant: the outline rule is applied at every level.
IsOutlineRowAnyLevel(r, cm) == Contains(Lower(Join(RawLines(r, cm), <<" ">>)), W_outline)

\* test.py 195-196
IsOutlineRow(r, cm) ==
    RowLevel(r) = 1 /\ Contains(Lower(Join(RawLines(r, cm), <<" ">>)), W_outline)

\* test.py 200-204
RowNote(r, cm) ==
    LET note == MappedText(r, cm.note)
    IN  IF is_trivial_note(note) THEN << >> ELSE note

\* test.py 209-214: the lines kept for the English name
NameContent(lines) ==
    LET content == IF Len(lines) > 1 THEN Tail(lines) ELSE lines
    IN  IF content # << >>
           /\ (HasJapanese(content[1]) \/ Len(LettersOnly(content[1])) < CUT_THRESHOLD)
        THEN Tail(content)
        ELSE content

\* Mutant: every later line is appended after one space.
RECURSIVE FlattenLinesSpaced(_, _, _)
FlattenLinesSpaced(content, i, flat) ==
    IF i > Len(content) THEN flat
    ELSE LET ln == Strip(content[i])
         IN  FlattenLinesSpaced(content, i + 1, IF i = 1 THEN ln ELSE flat \o <<" ">> \o ln)

\* test.py 220-229
RECURSIVE FlattenLines(_, _, _)
FlattenLines(content, i, flat) ==
    IF i > Len(content) THEN flat
    ELSE LET ln == Strip(content[i])
         IN  FlattenLines(content, i + 1,
                 IF i = 1 THEN ln
                 ELSE IF /\ flat # << >>
                         /\ IsAlpha(flat[Len(flat)])
                         /\ ln # << >>
                         /\ IsAlpha(ln[1])
                         /\ flat[Len(flat)] # " "
                      THEN flat \o ln
                      ELSE flat \o <<" ">> \o ln)

\* str.isupper: a cased character, and no lower-case one
IsUpperStr(w) ==
    /\ \E i \in 1..Len(w) : IsUpperCh(w[i])
    /\ \A i \in 1..Len(w) : ~IsLowerCh(w[i])

\* w.lower().capitalize()
Capitalize(w) ==
    IF w = << >> THEN << >> ELSE <<UpperCh(LowerCh(w[1]))>> \o Lower(Tail(w))

\* Mutant: the words are left as they were written.
fmtUnchanged(w) == w

\* test.py 233-238
fmt(w) ==
    IF \E i \in 1..Len(w) : w[i] \in AsciiDigit THEN Upper(w)
    ELSE IF IsUpperStr(w) /\ Len(w) <= CUT_THRESHOLD THEN w
    ELSE Capitalize(w)

\* test.py 231-240: pname
PartName(content) ==
    LET words == SplitWords(strip_non_ascii(FlattenLines(content, 1, << >>)))
    IN  Strip(Join([i \in 1..Len(words) |-> fmt(words[i])], <<" ">>))

RowPartName(r, cm) == PartName(NameContent(RawLines(r, cm)))

\* Mutant: the first run of digits is taken.
RevisionFirst(raw_chg) ==
    LET nums == FindAllDigits(raw_chg)
    IN  IF nums # << >> THEN nums[1] ELSE <<"0">>

\* test.py 246-248: chg
Revision(raw_chg) ==
    LET nums == FindAllDigits(raw_chg)
    IN  IF nums # << >> THEN nums[Len(nums)] ELSE <<"0">>

(***************************************************************************)
(* Quantity text (test.py 250-257): int(qt), else float(qt), else None.    *)
(* A float is kept as <<"float", text>>.                                   *)
(***************************************************************************)
Unsigned(s) == IF s # << >> /\ s[1] \in {"+", "-"} THEN Tail(s) ELSE s

\* digits, with single underscores allowed between them
DigitGroup(s) ==
    LET pieces == SplitAt(s, {"_"}, 1, << >>)
    IN  \A i \in 1..Len(pieces) : AllDigits(pieces[i])

IsIntLiteral(s) == DigitGroup(Unsigned(s))

IntValue(s) ==
    LET v == DigitsValue(SelectSeq(Unsigned(s), IsReDigit))
    IN  IF s[1] = "-" THEN 0 - v ELSE v

IsDecimal(m) ==
    LET dots == { i \in 1..Len(m) : m[i] = "." }
    IN  \/ DigitGroup(m)
        \/ \E d \in dots :
               LET ip == SubSeq(m, 1, d - 1)
                   fp == SubSeq(m, d + 1, Len(m))
               IN  /\ ip = << >> \/ DigitGroup(ip)
                   /\ fp = << >> \/ DigitGroup(fp)
                   /\ ip # << >> \/ fp # << >>

IsFloatLiteral(s) ==
    LET b == Lower(Unsigned(s))
    IN  \/ b \in { <<"i", "n", "f">>, <<"n", "a", "n">>,
                   <<"i", "n", "f", "i", "n", "i", "t", "y">> }
        \/ IsDecimal(b)
        \/ \E e \in 2..(Len(b) - 1) :
               /\ b[e] = "e"
               /\ IsDecimal(SubSeq(b, 1, e - 1))
               /\ DigitGroup(Unsigned(SubSeq(b, e + 1, Len(b))))

FloatQty(qt) == <<"float", qt>>

\* Mutant: text that is no number is recorded as the number 0.
ParseQtyZero(qt) ==
    IF qt = << >> THEN Num(0)
    ELSE IF IsIntLiteral(qt) THEN Num(IntValue(qt))
    ELSE IF IsFloatLiteral(qt) THEN FloatQty(qt)
    ELSE Num(0)

ParseQty(qt) ==
    IF qt = << >> THEN None
    ELSE IF IsIntLiteral(qt) THEN Num(IntValue(qt))
    ELSE IF IsFloatLiteral(qt) THEN FloatQty(qt)
    ELSE None

(***************************************************************************)
(* The entry of a row (test.py 244-273) and whether the row yields one.    *)
(***************************************************************************)
RowPartNumber(r, cm) ==
    IF cm.part_number < Len(r) THEN normalize_text(clean_cell(Cell(r, cm.part_number))) ELSE << >>

RowEntry(r, cm) ==
    LET content == NameContent(RawLines(r, cm))
        pname == PartName(content)
        note == RowNote(r, cm)
        pn == RowPartNumber(r, cm)
    IN  [level |-> RowLevel(r),
         part_name |-> pname,
         display_name |-> IF note # << >> THEN note ELSE pname,
         note |-> note,
         note_norm |-> normalize_note(note),
         part_number |-> pn,
         drawing_no |-> pn,
         change |-> Revision(MappedText(r, cm.change)),
         quantity |-> ParseQty(MappedText(r, cm.quantity)),
         flag_multiline_en |-> Len(content) > 1,
         flag_note_used |-> (note # << >>)]

\* The row passes every `continue` of the loop body.
RowEmits(r, cm, deleted) ==
    /\ ~BadIndex(r)
    /\ ~RowDeleted(r, deleted)
    /\ ~IsOutlineRow(r, cm)
    /\ RowPartName(r, cm) # << >>

(***************************************************************************)
(* Row Normalizer of the earlier generation (multi.py 87-180).             *)
(***************************************************************************)
RoleOfEarly(txt) ==
    IF Contains(txt, W_part_number) THEN "part_number"
    ELSE IF Contains(txt, W_part_name) THEN "part_name"
    ELSE IF Contains(txt, W_qty) THEN "quantity"
    ELSE IF Contains(txt, W_change) \/ StartsWith(txt, W_rev) THEN "change"
    ELSE "none"

ColumnOfEarly(hdr, role, default) ==
    LET hits == { ci \in 0..(Len(hdr) - 1) : RoleOfEarly(Lower(clean_cell(Cell(hdr, ci)))) = role }
    IN  IF hits # {} THEN SetMax(hits) ELSE default

BuildCmapEarly(hdr) ==
    [part_number |-> ColumnOfEarly(hdr, "part_number", DefaultPartNumberCol),
     part_name |-> ColumnOfEarly(hdr, "part_name", DefaultPartNameCol),
     quantity |-> ColumnOfEarly(hdr, "quantity", NoCol),
     change |-> ColumnOfEarly(hdr, "change", NoCol),
     note |-> NoCol]

\* multi.py 119-126
NameContentEarly(lines) ==
    LET content == IF Len(lines) > 1 THEN Tail(lines) ELSE << >>
    IN  IF content # << >>
           /\ (HasJapanese(content[1]) \/ Len(LettersOnly(content[1])) < CUT_THRESHOLD_EARLY)
        THEN Tail(content)
        ELSE content

IsShortUpper(a) == a # << >> /\ Len(a) <= CUT_THRESHOLD_EARLY /\ \A i \in 1..Len(a) : a[i] \in AsciiUpper

\* multi.py 129-142
RECURSIVE MergeFragments(_, _)
MergeFragments(content, i) ==
    IF i > Len(content) THEN << >>
    ELSE IF /\ i + 1 <= Len(content)
            /\ IsShortUpper(LettersOnly(content[i]))
            /\ IsShortUpper(LettersOnly(content[i + 1]))
         THEN <<LettersOnly(content[i]) \o LettersOnly(content[i + 1])>>
                  \o MergeFragments(content, i + 2)
         ELSE <<content[i]>> \o MergeFragments(content, i + 1)

fmtEarly(w) == IF IsUpperStr(w) /\ Len(w) <= ACRONYM_EARLY THEN w ELSE Capitalize(w)

\* multi.py 145-152
PartNameEarly(lines) ==
    LET content == MergeFragments(NameContentEarly(lines), 1)
        text == IF content # << >> THEN Join(content, <<" ">>)
                ELSE IF lines # << >> THEN lines[Len(lines)] ELSE << >>
        words == SplitWords(strip_non_ascii(text))
    IN  Join([i \in 1..Len(words) |-> fmtEarly(words[i])], <<" ">>)

\* multi.py 164-171
ParseQtyEarly(qt) ==
    IF IsIntLiteral(qt) THEN Num(IntValue(qt))
    ELSE IF IsFloatLiteral(qt) THEN FloatQty(qt)
    ELSE Num(0)

\* multi.py 155 reads row[cmap['part_number']] without a length check
RowRaisesEarly(r, cm) == cm.part_number >= Len(r)

RowEntryEarly(r, cm) ==
    LET pn == normalize_text(clean_cell(Cell(r, cm.part_number)))
    IN  [level |-> RowLevel(r),
         part_name |-> PartNameEarly(RawLines(r, cm)),
         part_number |-> pn,
         drawing_no |-> pn,
         change |-> Revision(MappedText(r, cm.change)),
         quantity |-> ParseQtyEarly(MappedText(r, cm.quantity))]

(***************************************************************************)
(* The Reconciler as a state machine.                                      *)
(***************************************************************************)


InitRecon ==
    /\ nsheets \in 1..MaxVariants
    /\ sheets = [i \in 1..nsheets |-> << >>]
    /\ vi = 0
    /\ seq_counter = 0
    /\ parts = << >>
    /\ initial_order = << >>
    /\ segments = << >>
    /\ name_order = << >>
    /\ ordered_keys = << >>
    /\ pc = "build"

\* The body of the inner loop for the next entry r of variant vi.
ProcessEntry(D) ==
    /\ pc = "build"
    /\ seq_counter < MaxEntries
    /\ \E r \in D :
         LET key == make_key(r, vi, seq_counter)
         IN  /\ parts' = BuildParts(parts, r, vi, key, nsheets)
             /\ initial_order' = BuildOrder(initial_order, key)
             /\ sheets' = [sheets EXCEPT ![vi + 1] = Append(@, r)]
    /\ seq_counter' = seq_counter + 1
    /\ UNCHANGED <<nsheets, vi, segments, name_order, ordered_keys, pc>>
    /\ UNCHANGED <<pvars, mvars>>

\* The outer loop moves to the next variant.
NextVariant ==
    /\ pc = "build"
    /\ vi + 1 < nsheets
    /\ vi' = vi + 1
    /\ UNCHANGED <<nsheets, sheets, seq_counter, parts, initial_order,
                   segments, name_order, ordered_keys, pc>>
    /\ UNCHANGED <<pvars, mvars>>

\* Both loops are over: segmentation, grouping and the final order.
Finish ==
    /\ pc = "build"
    /\ vi = nsheets - 1
    /\ segments' = Segment(parts, initial_order)
    /\ name_order' = NameOrder(parts, segments')
    /\ ordered_keys' = FinalOrder(parts, segments', name_order')
    /\ pc' = "done"
    /\ UNCHANGED <<nsheets, sheets, vi, seq_counter, parts, initial_order>>
    /\ UNCHANGED <<pvars, mvars>>

\* write_combined_excel is called once more on the same list of variants.
Rerun ==
    /\ pc = "done"
    /\ LET st == BuildLoop(sheets)
       IN  /\ parts' = st.parts
           /\ initial_order' = st.order
           /\ seq_counter' = st.seq
    /\ vi' = nsheets - 1
    /\ segments' = Segment(parts', initial_order')
    /\ name_order' = NameOrder(parts', segments')
    /\ ordered_keys' = FinalOrder(parts', segments', name_order')
    /\ pc' = "again"
    /\ UNCHANGED <<nsheets, sheets>>
    /\ UNCHANGED <<pvars, mvars>>

\* A page: its red-mark candidates and page.extract_tables()[0], if any.
Page(marks, tbl) == [marks |-> marks, has_table |-> TRUE, tbl |-> tbl]

PageNoTable(marks) == [marks |-> marks, has_table |-> FALSE, tbl |-> << >>]

\* main has not been entered.
IdleMain ==
    /\ m_pc = "idle"
    /\ m_args = << >>
    /\ m_i = 0
    /\ m_sheets = << >>
    /\ m_out = << >>

\* parse_pdf_metadata has not been entered.
IdleMeta ==
    /\ md_pc = "idle"
    /\ md_pages = << >>
    /\ md_out = None

\* parse_bom_pdf has not been entered.
IdleParser ==
    /\ gen = "later"
    /\ p_pc = "run"
    /\ entries = << >>
    /\ in_table = FALSE
    /\ deleted_idxs = {}
    /\ cmap = BuildCmap(<< >>)
    /\ pending = << >>
    /\ row = << >>
    /\ npages = 0
    /\ nrows = 0
    /\ page = PageNoTable({})

Init == InitRecon /\ IdleParser /\ IdleMain /\ IdleMeta

\* Runs of the Reconciler on ordinary entries.
Next == ProcessEntry(PlainEntries) \/ NextVariant \/ Finish

Spec == Init /\ [][Next]_vars

\* Runs of the Reconciler followed by a second run on the same input.
NextTwice == ProcessEntry(PlainEntries) \/ NextVariant \/ Finish \/ Rerun

SpecTwice == Init /\ [][NextTwice]_vars

\* Runs of the Reconciler in which texts may also contain the separators.
NextKeys == ProcessEntry(PlainEntries \cup KeyEntries) \/ NextVariant \/ Finish

SpecKeys == Init /\ [][NextKeys]_vars

(***************************************************************************)
(* parse_bom_pdf as a state machine: one step per page opened and one per  *)
(* data row.  A page is its marks and the rows of its first table up to    *)
(* and including those the header search reads; the rows after them        *)
(* arrive one by one.                                                      *)
(***************************************************************************)
InitParse ==
    /\ gen \in {"later", "early"}
    /\ p_pc = "run"
    /\ entries = << >>
    /\ in_table = FALSE
    /\ deleted_idxs = {}
    /\ cmap = BuildCmap(<< >>)
    /\ pending = << >>
    /\ row = << >>
    /\ npages = 0
    /\ nrows = 0
    /\ page = PageNoTable({})

\* `for page in pdf.pages`: the next page, up to the first data row.
OpenPage(PG) ==
    /\ p_pc = "run"
    /\ pending = << >>
    /\ npages < MaxPages
    /\ npages' = npages + 1
    /\ \E pg \in PG :
         /\ page' = pg
         /\ deleted_idxs' = IF gen = "later" THEN get_deleted_indices(pg.marks) ELSE {}
         /\ IF ~pg.has_table
            THEN /\ in_table' = FALSE
                 /\ UNCHANGED <<p_pc, cmap, pending>>
            ELSE LET hdr_i == FindHeader(pg.tbl)
                 IN  IF hdr_i >= Len(pg.tbl)
                     THEN \* tbl[hdr_i] raises IndexError
                          /\ p_pc' = "error"
                          /\ in_table' = FALSE
                          /\ UNCHANGED <<cmap, pending>>
                     ELSE /\ cmap' = IF gen = "later"
                                     THEN BuildCmap(pg.tbl[hdr_i + 1])
                                     ELSE BuildCmapEarly(pg.tbl[hdr_i + 1])
                          /\ pending' = SubSeq(pg.tbl, hdr_i + 2, Len(pg.tbl))
                          /\ in_table' = TRUE
                          /\ UNCHANGED p_pc
    /\ UNCHANGED <<gen, entries, row, nrows>>
    /\ UNCHANGED <<rvars, mvars>>

\* The body of `for row in tbl[hdr_i + 1:]` on row r.
RowStep(r) ==
    /\ row' = r
    /\ nrows' = nrows + 1
    /\ IF r = << >>
       THEN \* row[0] raises IndexError
            /\ p_pc' = "error"
            /\ UNCHANGED entries
       ELSE IF BadIndex(r)
       THEN UNCHANGED <<p_pc, entries>>
       ELSE IF gen = "later"
       THEN /\ entries' = IF RowEmits(r, cmap, deleted_idxs)
                          THEN Append(entries, RowEntry(r, cmap))
                          ELSE entries
            /\ UNCHANGED p_pc
       ELSE IF RowRaisesEarly(r, cmap)
            THEN /\ p_pc' = "error"
                 /\ UNCHANGED entries
            ELSE /\ entries' = Append(entries, RowEntryEarly(r, cmap))
                 /\ UNCHANGED p_pc

ProcessRow(D) ==
    /\ p_pc = "run"
    /\ in_table
    /\ nrows < MaxRows
    /\ IF pending # << >>
       THEN RowStep(Head(pending)) /\ pending' = Tail(pending)
       ELSE (\E r \in D : RowStep(r)) /\ UNCHANGED pending
    /\ UNCHANGED <<gen, in_table, deleted_idxs, cmap, npages, page>>
    /\ UNCHANGED <<rvars, mvars>>

\* `return entries`
Return ==
    /\ p_pc = "run"
    /\ pending = << >>
    /\ p_pc' = "end"
    /\ UNCHANGED <<gen, entries, in_table, deleted_idxs, cmap, pending, row, npages, nrows, page>>
    /\ UNCHANGED <<rvars, mvars>>

(***************************************************************************)
(* Documents for the item-index and deletion rules: a table of 11 columns  *)
(* (item, five level columns, part number, part name, qty, change, note).  *)
(***************************************************************************)
E == << >>

T_title == << <<"B", "O", "M">> >>

T_header ==
    << <<"N", "o">>, <<"L", "e", "v", "e", "l">>, E, E, E, E,
       <<"P", "a", "r", "t", " ", "N", "u", "m", "b", "e", "r">>,
       <<"P", "a", "r", "t", " ", "N", "a", "m", "e">>,
       <<"Q", "t", "y">>, <<"C", "h", "a", "n", "g", "e">>, <<"N", "o", "t", "e">> >>

\* A data row: the level mark sits in level column lvl (none when lvl = 0).
MkRow(idx, lvl, pn, name, qty, chg, note) ==
    <<idx>> \o [ci \in 1..5 |-> IF ci = lvl THEN <<"o">> ELSE IF ci < lvl THEN NullCell ELSE E]
            \o <<pn, name, qty, chg, note>>

IdxCells ==
    { NullCell, E, <<"1", "2">>, <<"1", "2", ".", "3">>, <<" ", "7", "\n">>,
      <<"7", ".", "x">>, <<"3">>, <<"U+FF11", "2">>, <<"1", "2", ".">>, <<"N", "o">> }

T_bracket == <<"B", "R", "A", "C", "K", "E", "T">>

T_harness == <<"U+90E8", "U+54C1", "\n", "W", "I", "R", "E", "\n", "H", "A", "R", "N", "E", "S", "S">>

T_outline == <<"O", "U", "T", "L", "I", "N", "E", " ", "D", "R", "A", "W", "I", "N", "G">>

T_buhin == <<"U+90E8", "U+54C1">>

RowsIdx ==
    { MkRow(idx, 1, <<"P", "1">>, T_bracket, <<"2">>, E, E) : idx \in IdxCells }
    \cup { MkRow(idx, 2, <<"P", "2">>, T_harness, E, <<"R", "1">>, <<"S", "P", "A", "R", "E">>) : idx \in IdxCells }
    \cup { MkRow(idx, 0, <<"P", "3">>, T_outline, <<"1">>, E, E) : idx \in {<<"1", "2">>, <<"1", "2", ".", "3">>, <<"3">>} }
    \cup { MkRow(idx, 1, <<"P", "4">>, T_buhin, <<"1">>, E, E) : idx \in {<<"1", "2">>, <<"1", "2", ".", "3">>, <<"3">>} }
    \cup { <<idx>> : idx \in {NullCell, <<"1", "2">>} }
    \cup { << >> }

MarksIdx ==
    { {},
      { Mark("line", TRUE, 300, <<"1", "2", ".", "1">>) },
      { Mark("char", TRUE, 50, <<"7", " ", "x">>), Mark("curve", TRUE, 20, <<"x">>) },
      { Mark("line", FALSE, 20, <<"1", "2">>), Mark("char", TRUE, 300, <<"3">>) } }

PagesIdx ==
    { Page(m, <<T_title, T_header>>) : m \in MarksIdx }
    \cup { Page(m, <<T_title, T_header,
                    MkRow(<<"1", "2">>, 1, <<"P", "0">>, T_bracket, <<"1">>, E, E)>>) : m \in MarksIdx }
    \cup { PageNoTable({}), Page({}, <<T_title>>) }

NextParse == OpenPage(PagesIdx) \/ ProcessRow(RowsIdx) \/ Return

\* write_combined_excel has not been entered.
IdleRecon == InitRecon /\ nsheets = 1

InitParser == IdleRecon /\ InitParse /\ IdleMain /\ IdleMeta

SpecParse == InitParser /\ [][NextParse]_vars

(***************************************************************************)
(* Documents for the name, quantity and revision rules: one data row per   *)
(* cell text of interest, under a full header and under a header that      *)
(* names no quantity, change or note column.                               *)
(***************************************************************************)
T_as_sy ==
    <<"U+90E8", "U+54C1", "U+540D", "\n", "A", "S", "\n",
      "S", "Y", " ", "B", "R", "A", "C", "K", "E", "T">>

T_na == <<"N", "/", "A">>

T_rev3was2 == <<"R", "e", "v", " ", "3", " ", "(", "w", "a", "s", " ", "2", ")">>

T_header_bare == SubSeq(T_header, 1, 8)

QtyCells ==
    { <<"2">>, E, T_na, <<"2", ".", "5">>, <<"-", "3">>, NullCell, <<"0">>, <<"U+FF11">> }

ChgCells ==
    { T_rev3was2, E, <<"R", "e", "v">>, <<"A", "1", "2", "B">>, <<"2", "U+FF11">>, NullCell }

RowsCells ==
    { MkRow(<<"3">>, 1, <<"P", "1">>, T_as_sy, <<"2">>, E, E) }
    \cup { MkRow(<<"3">>, 1, <<"P", "1">>, T_bracket, q, E, E) : q \in QtyCells }
    \cup { MkRow(<<"3">>, 1, <<"P", "1">>, T_bracket, <<"1">>, c, E) : c \in ChgCells }

PagesCells == { Page({}, <<T_header>>), Page({}, <<T_header_bare>>) }

NextCells == OpenPage(PagesCells) \/ ProcessRow(RowsCells) \/ Return

SpecCells == InitParser /\ [][NextCells]_vars

(***************************************************************************)
(* Documents for the deletion detector, the column map and the header      *)
(* search: one red or black mark of each kind at three horizontal          *)
(* positions beside row 12, a header that names two columns for a role,    *)
(* and tables without a header row.                                        *)
(***************************************************************************)
T_row12 == MkRow(<<"1", "2">>, 1, <<"P", "1">>, T_bracket, <<"2">>, <<"5">>, E)

MarksGutter ==
    { {Mark(kind, red, x0, <<"1", "2">>)} :
          kind \in {"line", "curve", "char"}, red \in BOOLEAN, x0 \in {50, 103, 300} }
    \cup { {} }

\* Columns: item, level (5), Part Number, Part Name, Qty, Change, Rev, Qty.
T_header_dup ==
    SubSeq(T_header, 1, 10) \o << <<"R", "e", "v">>, <<"Q", "t", "y">> >>

T_row_dup == T_row12 \o << <<"9">> >>

T_other == << <<"x">> >>

PagesHdr ==
    { Page(m, <<T_header, T_row12>>) : m \in MarksGutter }
    \cup { Page({}, <<T_header_dup, T_row_dup>>),
           Page({}, <<T_title>>),
           Page({}, <<T_title, T_other>>),
           Page({}, <<T_title, T_other, T_other>>),
           Page({}, <<T_title, T_other, T_other, T_row12>>),
           PageNoTable({}) }

RowsHdr == { T_row12, MkRow(<<"3">>, 1, <<"P", "2">>, T_bracket, <<"1">>, E, E) }

NextPages == OpenPage(PagesHdr) \/ ProcessRow(RowsHdr) \/ Return

SpecPages == InitParser /\ [][NextPages]_vars

(***************************************************************************)
(* main (test.py 501-521) as a state machine: one step per -s argument,    *)
(* then the call of write_combined_excel.  An argument is what its PDF     *)
(* path leads to: no file, a file parse_bom_pdf raises on, or a file with  *)
(* the entries parse_bom_pdf returns.                                      *)
(***************************************************************************)
NoFile == [is_file |-> FALSE, raises |-> FALSE, ents |-> << >>]

File(raises, ents) == [is_file |-> TRUE, raises |-> raises, ents |-> ents]

MainArgs ==
    { NoFile,
      File(TRUE, << >>),
      File(FALSE, << >>),
      File(FALSE, <<Entry(1, "A", "", "", "Clip", "0", Num(3), FALSE)>>) }

\* Mutant: a path that is no file is skipped and the loop goes on.
MainPassSkipMissing(st, a) ==
    IF ~a.is_file
    THEN [pc |-> "loop", i |-> st.i + 1, sheets |-> st.sheets]
    ELSE IF a.raises
    THEN [pc |-> "raised", i |-> st.i, sheets |-> st.sheets]
    ELSE [pc |-> "loop", i |-> st.i + 1, sheets |-> Append(st.sheets, a.ents)]

\* The body of `for var, pdf in args.sheet` on argument a.
MainPass(st, a) ==
    IF ~a.is_file
    THEN [pc |-> "exit", i |-> st.i, sheets |-> st.sheets]
    ELSE IF a.raises
    THEN [pc |-> "raised", i |-> st.i, sheets |-> st.sheets]
    ELSE [pc |-> "loop", i |-> st.i + 1, sheets |-> Append(st.sheets, a.ents)]

\* The exit status of the process once main was left by sys.exit(1) or by an
\* uncaught exception; None while main runs.
ExitStatus == IF m_pc \in {"exit", "raised"} THEN Num(1) ELSE None

InitMain ==
    /\ IdleRecon
    /\ IdleParser
    /\ IdleMeta
    /\ m_pc = "loop"
    /\ \E n \in 1..MaxArgs : m_args \in [1..n -> MainArgs]
    /\ m_i = 0
    /\ m_sheets = << >>
    /\ m_out = << >>

LoopStep ==
    /\ m_pc = "loop"
    /\ m_i < Len(m_args)
    /\ LET st == MainPass([pc |-> m_pc, i |-> m_i, sheets |-> m_sheets], m_args[m_i + 1])
       IN  /\ m_pc' = st.pc
           /\ m_i' = st.i
           /\ m_sheets' = st.sheets
    /\ UNCHANGED <<m_args, m_out, md_pc, md_pages, md_out>>
    /\ UNCHANGED <<rvars, pvars>>

\* write_combined_excel(sheets, Path(args.output))
CallWriter ==
    /\ m_pc = "loop"
    /\ m_i = Len(m_args)
    /\ m_out' = <<m_sheets>>
    /\ m_pc' = "written"
    /\ UNCHANGED <<m_args, m_i, m_sheets, md_pc, md_pages, md_out>>
    /\ UNCHANGED <<rvars, pvars>>

NextMain == LoopStep \/ CallWriter

SpecMain == InitMain /\ [][NextMain]_vars

(***************************************************************************)
(* Vocabulary of the Reconciler's properties: the input consumed so far,   *)
(* read back from sheets.                                                  *)
(***************************************************************************)
Variants == 0..(nsheets - 1)

Ents(v) == sheets[v + 1]

RECURSIVE Offset(_)
Offset(v) == IF v = 0 THEN 0 ELSE Offset(v - 1) + Len(sheets[v])

\* The key under which the build loop filed entry i of variant v.
KeyAt(v, i) == make_key(Ents(v)[i], v, Offset(v) + i - 1)

Items == { <<v, i>> \in Variants \X (1..MaxEntries + 1) : i <= Len(Ents(v)) }

Deeper(v, i) == Ents(v)[i].level > 1

RECURSIVE SumQty(_, _, _)
SumQty(v, k, i) ==
    IF i = 0
    THEN 0
    ELSE SumQty(v, k, i - 1)
         + (IF KeyAt(v, i) = k /\ Ents(v)[i].quantity # None
            THEN Ents(v)[i].quantity[1] ELSE 0)

Rows(s, k) == { i \in 1..Len(s) : s[i] = k }


IsLevel1Row(i) == parts[ordered_keys[i]].level = 1

\* C3: hierarchy is preserved: in the final order, the nearest level-1 row before
\* the row of a deeper-level entry is the merged part of the level-1 entry that
\* most closely precedes that entry in its own variant's list (for variant lists
\* that start with a level-1 entry).
C3_HierarchyPreserved ==
    pc = "done" =>
        \A v \in Variants :
            (Len(Ents(v)) > 0 /\ Ents(v)[1].level = 1) =>
                \A i \in 1..Len(Ents(v)) :
                    Deeper(v, i) =>
                        LET j == SetMax({ h \in 1..(i - 1) : Ents(v)[h].level = 1 })
                            erow == SetMax(Rows(ordered_keys, KeyAt(v, i)))
                            heads == { h \in 1..(erow - 1) : IsLevel1Row(h) }
                        IN  /\ heads # {}
                            /\ ordered_keys[SetMax(heads)] = KeyAt(v, j)

\* C4: at every step, the slot of merged part k for variant v is the sum of the
\* non-absent quantities of the entries of v filed under k when that sum is not
\* zero, and absent otherwise; no slot ever holds the number zero.
C4_QuantityAccumulation ==
    \A k \in DOMAIN parts :
        \A v \in Variants :
            LET total == SumQty(v, k, Len(Ents(v)))
            IN  /\ parts[k].qtys[v + 1] = (IF total = 0 THEN None ELSE Num(total))
                /\ parts[k].qtys[v + 1] # Num(0)

\* C4 witness: one key seen in one variant with quantities 3 and -3, slot absent.
C4_Witness ==
    \E v \in Variants :
        \E i, j \in 1..Len(Ents(v)) :
            /\ KeyAt(v, i) = KeyAt(v, j)
            /\ Ents(v)[i].quantity = Num(3)
            /\ Ents(v)[j].quantity = Num(-3)
            /\ Len(Ents(v)) = 2
            /\ parts[KeyAt(v, i)].qtys[v + 1] = None

\* C5: two level-1 entries are accumulated into the same merged part if and only
\* if they have equal part_number and equal note_norm.
C5_SamePartIffSamePair ==
    \A a, b \in Items :
        (~Deeper(a[1], a[2]) /\ ~Deeper(b[1], b[2])) =>
            ((KeyAt(a[1], a[2]) = KeyAt(b[1], b[2]))
                <=> (/\ Ents(a[1])[a[2]].part_number = Ents(b[1])[b[2]].part_number
                     /\ Ents(a[1])[a[2]].note_norm = Ents(b[1])[b[2]].note_norm))

DeeperItems == { it \in Items : Deeper(it[1], it[2]) }

DeeperRows == { i \in 1..Len(ordered_keys) : parts[ordered_keys[i]].level > 1 }

Populated(k) == { u \in 1..nsheets : parts[k].qtys[u] # None }

\* C6: deeper-level entries are never merged: the output has one deeper-level row
\* per deeper-level entry, and the only slot such a row can have populated is the
\* one of the entry's variant.
C6_DeeperNeverMerged ==
    pc = "done" =>
        /\ Cardinality(DeeperRows) = Cardinality(DeeperItems)
        /\ \A it \in DeeperItems :
               /\ Cardinality({ jt \in Items : KeyAt(jt[1], jt[2]) = KeyAt(it[1], it[2]) }) = 1
               /\ Populated(KeyAt(it[1], it[2])) \subseteq {it[1] + 1}

HeadName(s) == parts[segments[s][1]].part_name

\* The first run with the same head name as run s.
Rank(s) == CHOOSE t \in 1..s :
               /\ HeadName(t) = HeadName(s)
               /\ \A u \in 1..(t - 1) : HeadName(u) # HeadName(s)

\* Run t is placed before run s: its name was met earlier, or it is an earlier
\* run of the same name.
Before(t, s) == Rank(t) < Rank(s) \/ (Rank(t) = Rank(s) /\ t < s)

RECURSIVE StartOf(_, _)
StartOf(s, t) ==
    IF t = 0
    THEN 0
    ELSE StartOf(s, t - 1) + (IF Before(t, s) THEN Len(segments[t]) ELSE 0)

RECURSIVE LenSum(_)
LenSum(t) == IF t = 0 THEN 0 ELSE LenSum(t - 1) + Len(segments[t])

\* C7: the final order is the runs, each kept contiguous and in its own order,
\* arranged by the first occurrence of their head's part_name and, within one
\* name, in first-seen order.
C7_GroupedByName ==
    pc = "done" =>
        /\ Len(ordered_keys) = LenSum(Len(segments))
        /\ \A s \in 1..Len(segments) :
               \A j \in 1..Len(segments[s]) :
                   LET at == StartOf(s, Len(segments)) + j
                   IN  at \in 1..Len(ordered_keys) /\ ordered_keys[at] = segments[s][j]

\* C7 witness: three runs named Clip, Tape, Clip: regrouping moves the third.
C7_Witness ==
    /\ pc = "done"
    /\ Len(segments) = 3
    /\ HeadName(1) = HeadName(3)
    /\ HeadName(1) # HeadName(2)
    /\ Len(segments[1]) = 2
    /\ ordered_keys # initial_order

\* C8 as stated: every run starts with a level-1 key and holds no other level-1
\* key, for every input.
C8_RunsStartLevel1 ==
    pc = "done" =>
        \A s \in 1..Len(segments) :
            /\ parts[segments[s][1]].level = 1
            /\ \A j \in 2..Len(segments[s]) : parts[segments[s][j]].level # 1

FirstEntry == Ents(CHOOSE v \in Variants :
                       Len(Ents(v)) > 0 /\ \A u \in 0..(v - 1) : Len(Ents(u)) = 0)[1]

\* C8 amended: no run holds a level-1 key after its first key; every run but the
\* first starts with a level-1 key; the first run starts with a level-1 key
\* exactly when the first entry processed is level 1.
C8_RunsAmended ==
    pc = "done" =>
        /\ \A s \in 1..Len(segments) :
               /\ Len(segments[s]) >= 1
               /\ \A j \in 2..Len(segments[s]) : parts[segments[s][j]].level # 1
        /\ \A s \in 2..Len(segments) : parts[segments[s][1]].level = 1
        /\ Len(segments) > 0 =>
               (parts[segments[1][1]].level = 1 <=> FirstEntry.level = 1)
        /\ (Len(segments) = 0) <=> (seq_counter = 0)

\* C8 witness: input that starts with a deeper-level entry, then a level-1 run.
C8_Witness ==
    /\ pc = "done"
    /\ Len(segments) = 2
    /\ parts[segments[1][1]].level > 1
    /\ Len(segments[2]) = 2

\* C9: the final order is a permutation of the first-seen order, which lists
\* every key of the mapping once.
C9_Permutation ==
    pc = "done" =>
        /\ Len(ordered_keys) = Len(initial_order)
        /\ \A k \in DOMAIN parts :
               Cardinality(Rows(ordered_keys, k)) = 1 /\ Cardinality(Rows(initial_order, k)) = 1
        /\ \A i \in 1..Len(ordered_keys) : ordered_keys[i] \in DOMAIN parts

\* C9 witness: the first-seen order ends with a run of one level-1 entry that
\* follows a run with a deeper-level row.
C9_Witness ==
    /\ pc = "done"
    /\ Len(segments) = 2
    /\ Len(segments[1]) = 2
    /\ Len(segments[2]) = 1
    /\ parts[segments[2][1]].level = 1
    /\ initial_order[Len(initial_order)] = segments[2][1]
    /\ Rows(ordered_keys, segments[2][1]) # {}

SlotBefore(k, u) == IF k \in DOMAIN parts THEN parts[k].qtys[u] ELSE None

Changed == { ku \in (DOMAIN parts') \X (1..nsheets) :
                 parts'[ku[1]].qtys[ku[2]] # SlotBefore(ku[1], ku[2]) }

\* C10: every quantity vector has one slot per variant, and a step changes at
\* most one slot, the slot of the current variant, of one merged part.
C10_SlotFrame ==
    [][ /\ \A k \in DOMAIN parts' : DOMAIN parts'[k].qtys = 1..nsheets
        /\ DOMAIN parts \subseteq DOMAIN parts'
        /\ Cardinality(Changed) <= 1
        /\ \A ku \in Changed : ku[2] = vi + 1 ]_vars

\* C10 witness: a part holds a quantity of the second variant only.
C10_Witness ==
    /\ nsheets = 2
    /\ vi = 1
    /\ \E k \in DOMAIN parts : parts[k].qtys = <<None, Num(3)>>
    /\ \E k \in DOMAIN parts : parts[k].qtys = <<Num(3), None>>

(***************************************************************************)
(* Properties of the parser.                                               *)
(***************************************************************************)
\* This step ran the loop body on row'.
RowWasRead == nrows' = nrows + 1

\* The leading integer of a row's cleaned item-index cell is flagged on the page.
LeadingIntFlagged(r, deleted) ==
    /\ r # << >>
    /\ parse_index_int(clean_cell(r[1])) # None
    /\ parse_index_int(clean_cell(r[1]))[1] \in deleted

\* C1: in the later generation, a row whose item-index cell has a leading integer
\* that is in the page's DeletionSet appends no entry, whatever its other cells.
C1_DeletedRowsDropped ==
    [][ (gen = "later" /\ RowWasRead /\ LeadingIntFlagged(row', deleted_idxs))
            => entries' = entries ]_vars

\* C1 witness: the sub-indexed row 12.3 of a page that flags 12 was read; it
\* would yield an entry on a page that flags nothing, and yielded none.
C1_Witness ==
    /\ gen = "later"
    /\ nrows = 1
    /\ p_pc = "run"
    /\ deleted_idxs = {12}
    /\ row # << >>
    /\ clean_cell(row[1]) = <<"1", "2", ".", "3">>
    /\ RowEmits(row, cmap, {})
    /\ entries = << >>

\* C2: an entry is appended only by the loop body run on a row whose cleaned first
\* cell is non-empty and matches the dotted-decimal pattern, one entry at a time;
\* a row whose index cell is empty, null or non-matching yields no entry.
C2_EntriesHaveDottedIndex ==
    [][ /\ Len(entries') > Len(entries) =>
              /\ RowWasRead
              /\ Len(entries') = Len(entries) + 1
              /\ row' # << >>
              /\ clean_cell(row'[1]) # << >>
              /\ IsDottedIndex(clean_cell(row'[1]))
        /\ Len(entries') >= Len(entries) ]_vars

\* C2 witness: the earlier generation appended an entry for the row 12.3.
C2_Witness ==
    /\ gen = "early"
    /\ nrows = 1
    /\ Len(entries) = 1
    /\ clean_cell(row[1]) = <<"1", "2", ".", "3">>

(***************************************************************************)
(* Properties of the page: deletion set, column map, header row.           *)
(***************************************************************************)
\* The item numbers beside the pure-red marks that lie in the left gutter.
GutterNumbers(marks) ==
    { DigitsValue(FindAllDigits(m.strip)[1]) :
          m \in { x \in marks : x.red /\ x.x0 < GutterLimit /\ FindAllDigits(x.strip) # << >> } }

\* C17: the DeletionSet of a page holds only item numbers beside pure-red lines,
\* curves or glyphs whose horizontal position is below the gutter threshold.
C17_GutterOnly ==
    (gen = "later" /\ npages > 0) => deleted_idxs \subseteq GutterNumbers(page.marks)

\* The header row of the page opened last.
HeaderRow == page.tbl[FindHeader(page.tbl) + 1]

Matches(hdr, role) ==
    { ci \in 0..(Len(hdr) - 1) : RoleOf(Lower(clean_cell(hdr[ci + 1]))) = role }

\* C18: for each role, the column map records the index of the first header cell
\* that matches the role.
C18_FirstMatchWins ==
    (gen = "later" /\ in_table) =>
        \A role \in {"part_number", "part_name", "quantity", "change", "note"} :
            Matches(HeaderRow, role) # {} =>
                \A ci \in Matches(HeaderRow, role) : cmap[role] <= ci

\* C19: opening a page whose table has at least one row never fails: without a
\* header row in the scan window the fallback index is used and the rows after
\* it are the data rows.
C19_FallbackNeverFails ==
    [][ (npages' = npages + 1 /\ page'.has_table /\ Len(page'.tbl) >= 1)
            => /\ p_pc' = "run"
               /\ in_table'
               /\ pending' = SubSeq(page'.tbl, FindHeader(page'.tbl) + 2, Len(page'.tbl)) ]_vars

(***************************************************************************)
(* Properties of repeated and degenerate runs of the Reconciler.           *)
(***************************************************************************)
QtyVectors(p) == [k \in DOMAIN p |-> p[k].qtys]

RowEmitted == RowWasRead /\ Len(entries') = Len(entries) + 1

NewEntry == entries'[Len(entries')]

\* The text of column c of row', "" when no column is mapped or row' is short.
CellText(c) == IF c # NoCol /\ c < Len(row') THEN clean_cell(row'[c + 1]) ELSE << >>

\* C12: a part-name cell whose non-empty lines are the Japanese name, "AS" and
\* "SY BRACKET" yields part_name "Sy Bracket" and no multi-line flag.
C12_AsSyBracket ==
    [][ (gen = "later" /\ RowEmitted
            /\ cmap.part_name < Len(row') /\ row'[cmap.part_name + 1] = T_as_sy)
            => /\ NewEntry.part_name = <<"S", "y", " ", "B", "r", "a", "c", "k", "e", "t">>
               /\ NewEntry.flag_multiline_en = FALSE ]_vars

\* C13: in the later generation the quantity of an entry is the integer its
\* quantity text denotes when the text is an integer literal ("2" gives 2), and
\* absent when the text is empty, is no number ("N/A") or no quantity column is
\* mapped: never the number zero for these, and the row raises no error.
C13_QuantityParse ==
    [][ /\ (gen = "later" /\ RowWasRead /\ row' \in RowsCells) => RowEmitted /\ p_pc' = "run"
        /\ (gen = "later" /\ RowEmitted) =>
              LET qt == CellText(cmap.quantity)
                  q == NewEntry.quantity
              IN  /\ qt = <<"2">> => q = Num(2)
                  /\ IsIntLiteral(qt) => q = Num(IntValue(qt))
                  /\ cmap.quantity = NoCol => q = None
                  /\ qt = << >> => q = None
                  /\ qt = T_na => q = None
                  /\ (~IsIntLiteral(qt) /\ ~IsFloatLiteral(qt)) => q = None ]_vars

\* C13 witness: the row with quantity text "N/A" gave an entry of absent quantity.
C13_Witness ==
    /\ gen = "later"
    /\ nrows = 1
    /\ Len(entries) = 1
    /\ cmap.quantity # NoCol
    /\ clean_cell(row[cmap.quantity + 1]) = T_na
    /\ entries[1].quantity = None

\* The last maximal run of digits of t, "0" when t holds no digit.
LastDigitRun(t) ==
    LET ds == { i \in 1..Len(t) : IsReDigit(t[i]) }
    IN  IF ds = {} THEN <<"0">>
        ELSE LET b == SetMax(ds)
                 a == CHOOSE i \in 1..b :
                          /\ \A j \in i..b : j \in ds
                          /\ (i - 1) \notin ds
             IN  SubSeq(t, a, b)

\* C14: the revision of an entry is the last maximal run of digits of the mapped
\* change cell text ("Rev 3 (was 2)" gives "2"), and "0" when the text holds no
\* digit or no change column is mapped.
C14_RevisionLastRun ==
    [][ RowEmitted =>
            LET t == CellText(cmap.change)
            IN  /\ NewEntry.change = LastDigitRun(t)
                /\ t = T_rev3was2 => NewEntry.change = <<"2">>
                /\ cmap.change = NoCol => NewEntry.change = <<"0">> ]_vars

\* C14 witness: the row with change text "Rev 3 (was 2)" gave revision "2".
C14_Witness ==
    /\ nrows = 1
    /\ Len(entries) = 1
    /\ cmap.change # NoCol
    /\ clean_cell(row[cmap.change + 1]) = T_rev3was2
    /\ entries[1].change = <<"2">>

\* The keys of a whole run on the list shs, in final order, and its mapping.
WholeRun(shs) ==
    LET st == BuildLoop(shs)
        segs == Segment(st.parts, st.order)
    IN  [keys |-> FinalOrder(st.parts, segs, NameOrder(st.parts, segs)),
         parts |-> st.parts]

EmptyVariants == { v \in Variants : Ents(v) = << >> }

\* C16: a variant with no entries is no error.  In the finished run every
\* quantity vector has one slot per variant, the empty variant's slot is absent
\* in every merged part, no key is filed under it, and the keys, their order and
\* the merged parts are those of one whole run on the list with the empty list
\* in that position.
C16_EmptyVariant ==
    pc = "done" =>
        \A e \in EmptyVariants :
            /\ \A k \in DOMAIN parts :
                   /\ Len(parts[k].qtys) = nsheets
                   /\ parts[k].qtys[e + 1] = None
                   /\ \E it \in Items : it[1] # e /\ KeyAt(it[1], it[2]) = k
            /\ ordered_keys = WholeRun(sheets).keys
            /\ parts = WholeRun(sheets).parts

\* C16 witness: the first of two variants is empty; the second has a level-1
\* entry with a quantity and a deeper entry.
C16_Witness ==
    /\ pc = "done"
    /\ nsheets = 2
    /\ EmptyVariants = {0}
    /\ Len(ordered_keys) >= 2
    /\ \E it \in Items : Deeper(it[1], it[2])
    /\ \E k \in DOMAIN parts : parts[k].qtys = <<None, Num(3)>>

Fields(part) == [f \in (DOMAIN part) \ {"qtys"} |-> part[f]]

\* The entry the build loop consumed in this step.
EntryRead == sheets'[vi + 1][Len(sheets'[vi + 1])]

\* C20: a merged part's fields other than the quantity vector are those of the
\* first entry seen with its key: a step that meets a new key seeds the part
\* with the entry's fields, and no step changes these fields of an existing
\* part or removes a part.
C20_FieldsOfFirstSighting ==
    [][ /\ \A k \in DOMAIN parts :
               k \in DOMAIN parts' /\ Fields(parts'[k]) = Fields(parts[k])
        /\ \A k \in (DOMAIN parts') \ (DOMAIN parts) :
               /\ seq_counter' = seq_counter + 1
               /\ k = make_key(EntryRead, vi, seq_counter)
               /\ Fields(parts'[k]) = EntryRead ]_vars

\* C20 witness: a key was seen twice, in two variants, by entries of different
\* name and revision; the part has the first one's and a quantity of each.
C20_Witness ==
    /\ nsheets = 2
    /\ Len(Ents(0)) >= 1 /\ Len(Ents(1)) >= 1
    /\ KeyAt(0, 1) = KeyAt(1, 1)
    /\ Ents(0)[1].part_name # Ents(1)[1].part_name
    /\ Ents(0)[1].change # Ents(1)[1].change
    /\ parts[KeyAt(0, 1)].part_name = Ents(0)[1].part_name
    /\ parts[KeyAt(0, 1)].change = Ents(0)[1].change
    /\ Populated(KeyAt(0, 1)) = {1, 2}

(***************************************************************************)
(* Properties of main.                                                     *)
(***************************************************************************)
Missing == { j \in 1..Len(m_args) : ~m_args[j].is_file }

\* C15: if any requested path is no file, write_combined_excel is never called
\* and the loop cannot pass the missing path: it leaves main with a failure exit
\* status.  When the writer is called, it is called with one list per argument.
C15_MissingPathAborts ==
    /\ Missing # {} => m_pc # "written" /\ m_out = << >>
    /\ m_pc = "loop" => \A j \in Missing : m_i < j
    /\ m_pc = "exit" => /\ (m_i + 1) \in Missing
                        /\ ExitStatus # None /\ ExitStatus # Num(0)
                        /\ m_out = << >>
    /\ m_out # << >> => Len(m_out[1]) = Len(m_args)

\* C15 witness: the second of three paths is missing; the run stopped there
\* after parsing the first, with the third never looked at.
C15_Witness ==
    /\ m_pc = "exit"
    /\ Len(m_args) = 3
    /\ Missing = {2}
    /\ Len(m_sheets) = 1
    /\ m_out = << >>

(***************************************************************************)
(* Documents for the note rule: one row, its note cell varied, read under  *)
(* a header with a note column and under one without; and the same row     *)
(* cut short before the note column.                                       *)
(***************************************************************************)
NoteCells ==
    { E, NullCell,
      <<"U+6B20", "U+56F3">>,
      <<"i", "n", " ", "p", "r", "e", "p", "a", "r", "a", "t", "i", "o", "n">>,
      <<"I", "N", " ", "P", "R", "E", "P", "A", "R", "A", "T", "I", "O", "N">>,
      <<"U+6B20", "U+56F3", " ", "I", "n", " ", " ", "P", "r", "e", "p", "a", "r", "a", "t", "i", "o", "n">>,
      <<"U+6B20", "U+56F3", "i", "n", " ", "p", "r", "e", "p", "a", "r", "a", "t", "i", "o", "n">>,
      <<"i", "n", "\n", "p", "r", "e", "p", "a", "r", "a", "t", "i", "o", "n">>,
      <<"S", "P", "A", "R", "E">>,
      <<";">>,
      <<"i", "n", " ", "p", "r", "e", "p", "a", "r", "a", "t", "i", "o", "n", " ", "s", "o", "o", "n">>,
      <<"U+6B20", "U+56F3", " ", "S", "P", "A", "R", "E">>,
      <<"S", "e", "e", " ", "N", "o", "t", "e", " ", "2">> }

RowsNotes ==
    { MkRow(<<"3">>, 1, <<"P", "1">>, T_bracket, <<"1">>, E, n) : n \in NoteCells }
    \cup { SubSeq(MkRow(<<"3">>, 1, <<"P", "1">>, T_bracket, <<"1">>, E, <<"S", "P", "A", "R", "E">>), 1, 10) }

NextNotes == OpenPage(PagesCells) \/ ProcessRow(RowsNotes) \/ Return

SpecNotes == InitParser /\ [][NextNotes]_vars

\* The cleaned text of the note cell of the row just read; empty when the
\* table has no note column or the row ends before it.
NoteText == CellText(cmap.note)

\* The note says nothing: empty, the token alone, or the two words
\* "in preparation" in any case, with or without the token in front.
SaysNothing(t) ==
    LET rest == IF StartsWith(t, W_ketsuzu) THEN SubSeq(t, Len(W_ketsuzu) + 1, Len(t)) ELSE t
    IN  \/ t = << >>
        \/ t = W_ketsuzu
        \/ SplitWords(Lower(rest)) = <<W_in, W_preparation>>

\* C21: every entry the later generation emits carries an empty note and an
\* empty note_norm, its part name as display name and flag_note_used false
\* when the note cell is absent, empty, the token alone or only "in
\* preparation"; otherwise its display name is the note text and
\* flag_note_used is true. So flag_note_used holds exactly when the display
\* name is the non-empty note.
C21_NoteHandling ==
    [][(RowEmitted /\ gen = "later") =>
          LET e == NewEntry
          IN  /\ IF SaysNothing(NoteText)
                 THEN /\ e.note = << >>
                      /\ e.note_norm = << >>
                      /\ e.display_name = e.part_name
                      /\ ~e.flag_note_used
                 ELSE /\ e.display_name = NoteText
                      /\ e.flag_note_used
              /\ e.flag_note_used <=> (e.note # << >> /\ e.display_name = e.note)]_vars

\* An entry named by its note, and one whose "IN PREPARATION" note was set aside.
C21_Witness ==
    /\ gen = "later"
    /\ Len(entries) = 2
    /\ entries[1].flag_note_used
    /\ entries[1].display_name = <<"S", "P", "A", "R", "E">>
    /\ Len(row) = 11
    /\ row[11] = <<"I", "N", " ", "P", "R", "E", "P", "A", "R", "A", "T", "I", "O", "N">>
    /\ cmap.note = 10
    /\ ~entries[2].flag_note_used
    /\ entries[2].display_name = entries[2].part_name
    /\ entries[2].note = << >>

(***************************************************************************)
(* Documents for the part-name rules: one row of level 1, its part-name    *)
(* cell varied over single-line and multi-line texts, with candidate lines *)
(* in Japanese, in accented and fullwidth Latin, short ones, lines that    *)
(* end and start in letters, digits and brackets, and words of every case. *)
(***************************************************************************)
NameCells ==
    { T_bracket, T_harness, T_buhin, T_as_sy,
      <<"U+90E8", "U+54C1", "\n", "C", "A", "F", "U+00C9", "\n", "B", "R", "A", "C", "K", "E", "T">>,
      <<"U+90E8", "U+54C1", "\n", "C", "A", "F", "U+00C9">>,
      <<"U+90E8", "U+54C1", "\n", "C", "L", "I", "P", " ", "2", "\n", "B", "L", "A", "C", "K">>,
      <<"U+90E8", "U+54C1", "\n", "B", "R", "A", "C", "K", "E", "T", "\n", "(", "L", "H", ")">>,
      <<"U+90E8", "U+54C1", "\n", "B", "R", "A", "C", "K", "E", "T">>,
      <<"U+90E8", "U+54C1", "\n", "U+90E8", "U+54C1", "\n", "C", "O", "V", "E", "R">>,
      <<"U+90E8", "U+54C1", "\n", "w", "i", "r", "e", " ", "h", "a", "r", "n", "e", "s", "s", " ", "u", "s", "b", "2">>,
      <<"U+90E8", "U+54C1", "\n", "E", "C", "U", " ", "A", "B", "C", "D", " ", "a", "b", "c">>,
      <<"U+90E8", "U+54C1", "\n", "B", "R", "A", "C", "K", "E", "T", "\n", "U+00C9">>,
      <<"U+90E8", "U+54C1", "\n", "U+FF21", "U+FF21", "U+FF21", "\n", "B", "R", "A", "C", "K", "E", "T">>,
      <<"w", "i", "r", "e", "\n", "h", "a", "r", "n", "e", "s", "s">> }

RowsNames == { MkRow(<<"3">>, 1, <<"P", "1">>, n, <<"1">>, E, E) : n \in NameCells }

NextNames == OpenPage({Page({}, <<T_header>>)}) \/ ProcessRow(RowsNames) \/ Return

SpecNames == InitParser /\ [][NextNames]_vars

\* The row just read reaches the reconstruction of its name.
NameIsBuilt ==
    /\ RowWasRead
    /\ gen = "later"
    /\ row' # << >>
    /\ ~BadIndex(row')
    /\ ~RowDeleted(row', deleted_idxs)
    /\ ~IsOutlineRow(row', cmap)

\* The non-empty lines of the part-name cell of the row just read.
NameLines == StrippedLines(IF cmap.part_name < Len(row') THEN Str(row'[cmap.part_name + 1]) ELSE << >>)

\* The first line of a multi-line cell is set aside.
Candidates(lines) == IF Len(lines) > 1 THEN Tail(lines) ELSE lines

\* The first candidate is noise: a character outside 7-bit ASCII, or fewer
\* letters than the threshold.
IsNoise(cand) ==
    \/ \E i \in 1..Len(cand) : cand[i] \in NonAscii
    \/ Len(LettersOnly(cand)) < CUT_THRESHOLD

Remaining(lines) ==
    LET c == Candidates(lines)
    IN  IF c # << >> /\ IsNoise(c[1]) THEN Tail(c) ELSE c

\* The words of a flattened name, formatted and joined.
Formatted(flat) ==
    LET words == SplitWords(strip_non_ascii(flat))
    IN  Join([i \in 1..Len(words) |-> fmt(words[i])], <<" ">>)

\* C22: the first candidate line is dropped whenever it holds a character
\* outside 7-bit ASCII or fewer letters than the threshold, and kept
\* otherwise: the name of the row is built from the lines that remain, and
\* the row yields no entry when none remains.
C22_FirstCandidate ==
    [][NameIsBuilt =>
          LET name == Formatted(FlattenLines(Remaining(NameLines), 1, << >>))
          IN  IF name = << >> THEN entries' = entries
              ELSE RowEmitted /\ NewEntry.part_name = name]_vars

\* C23: flag_multiline_en of an emitted entry is true exactly when two or
\* more lines remain after the first line of a multi-line cell was set
\* aside and the first candidate was filtered.
C23_MultilineFlag ==
    [][(NameIsBuilt /\ RowEmitted) =>
          (NewEntry.flag_multiline_en <=> Len(Remaining(NameLines)) >= 2)]_vars

\* One line appended to the accumulated string.
Glued(acc, ln) ==
    IF acc # << >> /\ IsAlpha(acc[Len(acc)]) /\ ln # << >> /\ IsAlpha(ln[1])
    THEN acc \o ln
    ELSE acc \o <<" ">> \o ln

RECURSIVE Stitched(_)
Stitched(lines) ==
    IF lines = << >> THEN << >>
    ELSE IF Len(lines) = 1 THEN lines[1]
    ELSE Glued(Stitched(SubSeq(lines, 1, Len(lines) - 1)), lines[Len(lines)])

\* A string without its spaces.
Unspaced(str) == SelectSeq(str, LAMBDA c : c # " ")

\* C24: the lines kept for the name are flattened in their order, the first
\* one seeding the result and each later one appended directly when the
\* string so far ends in a letter and the line starts with one, after one
\* space otherwise; no character of a line is lost, and the part name is the
\* formatted result.
C24_Flattening ==
    [][(NameIsBuilt /\ RowEmitted) =>
          LET content == NameContent(NameLines)
              flat == FlattenLines(content, 1, << >>)
          IN  /\ flat = Stitched(content)
              /\ Unspaced(flat) = Unspaced(Join(content, << >>))
              /\ NewEntry.part_name = Formatted(Stitched(content))]_vars

\* "WIRE" and "HARNESS" were joined into one word, "CLIP 2" and "BLACK" were not.
C24_Witness ==
    /\ gen = "later"
    /\ Len(entries) = 2
    /\ entries[1].part_name = <<"W", "i", "r", "e", "h", "a", "r", "n", "e", "s", "s">>
    /\ entries[1].flag_multiline_en
    /\ entries[2].part_name = <<"C", "l", "i", "p", " ", "2", " ", "B", "l", "a", "c", "k">>
    /\ entries[2].flag_multiline_en

\* A word as the formatter leaves it.
IsFormatted(w) ==
    \/ (\E i \in 1..Len(w) : w[i] \in AsciiDigit) /\ w = Upper(w)
    \/ IsUpperStr(w) /\ Len(w) <= CUT_THRESHOLD
    \/ w = Capitalize(w)

\* C25: the part name of every entry the later generation emits is not
\* empty, holds ASCII characters only, and is a sequence of words separated
\* by single spaces, each upper-cased when it holds a digit, left as it is
\* when it is upper-case and no longer than the acronym threshold, and
\* lower-cased with a capital first character otherwise.
C25_PartNameShape ==
    [][(RowEmitted /\ gen = "later") =>
          LET name == NewEntry.part_name
              words == SplitAt(name, {" "}, 1, << >>)
          IN  /\ name # << >>
              /\ \A i \in 1..Len(name) : name[i] \notin NonAscii
              /\ \A i \in 1..Len(words) : words[i] # << >> /\ IsFormatted(words[i])]_vars

\* Names with a digit word, an acronym, and capitalized words.
C25_Witness ==
    /\ gen = "later"
    /\ Len(entries) = 2
    /\ entries[1].part_name = <<"W", "i", "r", "e", " ", "H", "a", "r", "n", "e", "s", "s", " ", "U", "S", "B", "2">>
    /\ entries[2].part_name = <<"E", "C", "U", " ", "A", "b", "c", "d", " ", "A", "b", "c">>

(***************************************************************************)
(* Documents for the level and outline rules: rows of 11 cells with the    *)
(* level mark in each column, in two columns and in none; rows of 4 cells  *)
(* under a header of 4 columns, where the level columns that exist hold    *)
(* the part number and the part name; and rows whose part-name cell holds  *)
(* the outline phrase, at levels 1 and 2.                                  *)
(***************************************************************************)
T_header4 ==
    << <<"L", "e", "v", "e", "l">>, E,
       <<"P", "a", "r", "t", " ", "N", "u", "m", "b", "e", "r">>,
       <<"P", "a", "r", "t", " ", "N", "a", "m", "e">> >>

OutlineCells ==
    { T_outline,
      <<"O", "u", "t", "l", "i", "n", "e", "\n", "D", "r", "a", "w", "i", "n", "g">>,
      <<"U+90E8", "U+54C1", "\n", "O", "U", "T", "L", "I", "N", "E", " ", "D", "R", "A", "W", "I", "N", "G", " ", "R", "E", "F">>,
      <<"O", "U", "T", "L", "I", "N", "E", " ", " ", "D", "R", "A", "W", "I", "N", "G">> }

RowsLevels ==
    { MkRow(<<"3">>, lvl, <<"P", "1">>, T_bracket, <<"1">>, E, E) : lvl \in 0..5 }
    \cup { << <<"3">>, E, <<"o">>, E, <<"o">>, E, <<"P", "1">>, T_bracket, <<"1">>, E, E >>,
            << <<"3">>, E, <<"P", "1">>, T_bracket >>,
            << <<"3">>, <<"o">>, <<"P", "1">>, T_bracket >>,
            << <<"3">>, E, E, T_bracket >>,
            << <<"3">>, NullCell, NullCell, T_bracket >> }

RowsOutline ==
    { MkRow(<<"3">>, lvl, <<"P", "3">>, o, <<"1">>, E, E) : lvl \in 0..2, o \in OutlineCells }
    \cup { << <<"3">>, <<"o">>, <<"P", "3">>, T_outline >>,
            << <<"3">>, E, <<"P", "3">>, T_outline >> }

PagesLevels == { Page({}, <<T_header>>), Page({}, <<T_header4>>) }

NextLevels == OpenPage(PagesLevels) \/ ProcessRow(RowsLevels) \/ Return

SpecLevels == InitParser /\ [][NextLevels]_vars

NextOutline == OpenPage(PagesLevels) \/ ProcessRow(RowsOutline) \/ Return

SpecOutline == InitParser /\ [][NextOutline]_vars

\* The level columns 1..5 the row just read has, and that are not empty.
LevelMarks == { ci \in 1..5 : CellText(ci) # << >> }

MarkedLevel == IF LevelMarks = {} THEN 1 ELSE CHOOSE ci \in LevelMarks : \A cj \in LevelMarks : ci <= cj

\* C26: the level of every emitted entry is the first of the columns 1..5
\* that exists in the row and is not empty, and 1 when there is none; so it
\* lies in 1..5 whatever the length of the row.
C26_Level ==
    [][RowEmitted => (NewEntry.level = MarkedLevel /\ NewEntry.level \in 1..5)]_vars

\* A row of 11 cells marked in column 5, then a row of 4 cells whose first
\* non-empty level column is the third.
C26_Witness ==
    /\ nrows = 2
    /\ Len(entries) = 2
    /\ entries[1].level = 5
    /\ Len(row) = 4
    /\ entries[2].level = 3

\* The part-name cell of the row just read holds the outline phrase.
SaysOutline == Contains(Lower(Join(NameLines, <<" ">>)), W_outline)

\* C27: a row of level 1 whose part-name text holds "outline drawing" in
\* any case yields no entry; a row of a deeper level with such a text is
\* not skipped for it, and yields its entry.
C27_OutlineSkipped ==
    [][(RowWasRead /\ gen = "later" /\ row' # << >> /\ SaysOutline) =>
          IF MarkedLevel = 1 THEN entries' = entries
          ELSE (~BadIndex(row') /\ ~RowDeleted(row', deleted_idxs) /\ RowPartName(row', cmap) # << >>)
                   => (RowEmitted /\ NewEntry.level = MarkedLevel)]_vars

\* An outline row of level 2 gave an entry, the same cell at level 1 gave none.
C27_Witness ==
    /\ gen = "later"
    /\ nrows = 2
    /\ Len(entries) = 1
    /\ entries[1].level = 2
    /\ entries[1].part_name = <<"O", "u", "t", "l", "i", "n", "e", " ", "D", "r", "a", "w", "i", "n", "g">>
    /\ Len(row) = 11
    /\ row[8] = T_outline
    /\ RowLevel(row) = 1

(***************************************************************************)
(* Metadata Extractor (test.py 278-290; multi.py 185-203 is the same       *)
(* function).  The result is the tuple (cust, prod) that main unpacks.     *)
(***************************************************************************)
W_PRODUCT_NUMBER == <<"P", "R", "O", "D", "U", "C", "T", " ", "N", "U", "M", "B", "E", "R">>

W_CUSTOMER == <<"C", "U", "S", "T", "O", "M", "E", "R">>

\* up.startswith("PRODUCT NUMBER") and "CUSTOMER" in up
IsAnchor(line) ==
    LET up == Upper(line)
    IN  StartsWith(up, W_PRODUCT_NUMBER) /\ Contains(up, W_CUSTOMER)

\* "".join(page.extract_text() or "" for page in pdf.pages)
FullText(pages) ==
    Join([i \in 1..Len(pages) |-> IF pages[i] = NullCell THEN << >> ELSE pages[i]], << >>)

\* Mutant: the line before the last anchor line is read.
parse_pdf_metadataLastAnchor(pages) ==
    LET lines == StrippedLines(FullText(pages))
        hits == { i \in 1..Len(lines) : IsAnchor(lines[i]) }
    IN  IF hits = {} THEN <<E, E>>
        ELSE LET i == SetMax(hits)
                 toks == IF i > 1 THEN SplitWords(lines[i - 1]) ELSE << >>
             IN  IF Len(toks) >= 2
                 THEN <<strip_non_ascii(normalize_text(toks[2])),
                        strip_non_ascii(normalize_text(toks[1]))>>
                 ELSE <<E, E>>

parse_pdf_metadata(pages) ==
    LET lines == StrippedLines(FullText(pages))
        hits == { i \in 1..Len(lines) : IsAnchor(lines[i]) }
    IN  IF hits = {} THEN <<E, E>>
        ELSE LET i == CHOOSE h \in hits : \A g \in hits : h <= g
                 toks == IF i > 1 THEN SplitWords(lines[i - 1]) ELSE << >>
             IN  IF Len(toks) >= 2
                 THEN <<strip_non_ascii(normalize_text(toks[2])),
                        strip_non_ascii(normalize_text(toks[1]))>>
                 ELSE <<E, E>>

(***************************************************************************)
(* Documents for the metadata: pages of up to MaxTextLines lines drawn     *)
(* from anchor lines in two spellings, lines that hold only one of the two *)
(* anchor words or hold them in the other order, lines of one, two and     *)
(* three tokens, tokens in Japanese and in fullwidth and accented Latin,   *)
(* and a blank line; documents of one page, of two pages of at most one    *)
(* line each, and with a page without text.                                *)
(***************************************************************************)
T_anchor == <<"P", "R", "O", "D", "U", "C", "T", " ", "N", "U", "M", "B", "E", "R", " ", "C", "U", "S", "T", "O", "M", "E", "R">>

T_anchor_mixed == <<"P", "r", "o", "d", "u", "c", "t", " ", "N", "u", "m", "b", "e", "r", " ", "/", " ", "C", "u", "s", "t", "o", "m", "e", "r">>

T_two_tokens == <<"A", "B", "C", "1", "2", "3", " ", "T", "O", "Y", "O", "T", "A">>

T_one_token == <<"A", "B", "C", "1", "2", "3">>

T_three_tokens == <<"X", "9", " ", " ", "H", "O", "N", "D", "A", " ", "E", "X", "T", "R", "A">>

T_cjk_tokens == <<"U+90E8", "U+54C1", " ", "U+54C1", "U+540D">>

T_wide_tokens == <<"U+FF21", "U+FF11", " ", "C", "A", "F", "U+00C9">>

T_anchor_late == <<"C", "U", "S", "T", "O", "M", "E", "R", " ", "P", "R", "O", "D", "U", "C", "T", " ", "N", "U", "M", "B", "E", "R">>

T_anchor_half == <<"P", "R", "O", "D", "U", "C", "T", " ", "N", "U", "M", "B", "E", "R">>

T_blank == <<" ">>

TextLines ==
    { T_anchor, T_anchor_mixed, T_two_tokens, T_one_token, T_three_tokens,
      T_cjk_tokens, T_wide_tokens, T_anchor_late, T_anchor_half, T_blank }

LineSeqs(n) == UNION { [1..k -> TextLines] : k \in 0..n }

\* The text of a page: its lines, separated by newlines.
PageText(ls) == Join(ls, <<"\n">>)

MetaDocs ==
    { <<PageText(ls)>> : ls \in LineSeqs(MaxTextLines) }
    \cup { <<PageText(a), PageText(b)>> : a \in LineSeqs(1), b \in LineSeqs(1) }
    \cup { <<PageText(<<a>>) \o <<"\n">>, PageText(<<b>>)>> : a \in TextLines, b \in TextLines }
    \cup { <<NullCell>>, <<NullCell, PageText(<<T_two_tokens, T_anchor>>)>> }

InitMeta ==
    /\ IdleRecon
    /\ IdleParser
    /\ IdleMain
    /\ md_pc = "call"
    /\ md_pages \in MetaDocs
    /\ md_out = None

\* cust, prod = parse_pdf_metadata(p)
CallMetadata ==
    /\ md_pc = "call"
    /\ md_out' = parse_pdf_metadata(md_pages)
    /\ md_pc' = "returned"
    /\ UNCHANGED <<md_pages, m_pc, m_args, m_i, m_sheets, m_out>>
    /\ UNCHANGED <<rvars, pvars>>

NextMeta == CallMetadata

SpecMeta == InitMeta /\ [][NextMeta]_vars

\* The identifiers as main unpacks them.
Customer == md_out[1]

Product == md_out[2]

\* The non-empty lines of the text of the document, stripped.
DocLines == StrippedLines(FullText(md_pages))

AnchorLines == { i \in 1..Len(DocLines) : IsAnchor(DocLines[i]) }

FirstAnchor == CHOOSE i \in AnchorLines : \A j \in AnchorLines : i <= j

\* The tokens of the line before the first anchor line.
TokensBefore == SplitWords(DocLines[FirstAnchor - 1])

\* No anchor line, or the first one is the first line, or the line before
\* it has fewer than two tokens.
NothingToRead ==
    \/ AnchorLines = {}
    \/ FirstAnchor = 1
    \/ Len(TokensBefore) < 2

\* C28 as stated: the extraction returns, and both identifiers are empty
\* when there is nothing to read; otherwise the product is the first token
\* of the line before the first anchor line and the customer the second.
C28_Metadata ==
    md_pc = "returned" =>
        /\ md_out # None
        /\ IF NothingToRead
           THEN Product = E /\ Customer = E
           ELSE Product = TokensBefore[1] /\ Customer = TokensBefore[2]

\* An identifier as it is returned: NFKC-normalized, its non-ASCII
\* characters removed.
AsIdentifier(token) == strip_non_ascii(normalize_text(token))

\* C28 amended: the identifiers are the two tokens normalized and stripped
\* of their non-ASCII characters, so they can be empty or shorter than the
\* tokens; anchor lines after the first are never read.
C28_MetadataAmended ==
    md_pc = "returned" =>
        /\ md_out # None
        /\ IF NothingToRead
           THEN Product = E /\ Customer = E
           ELSE /\ Product = AsIdentifier(TokensBefore[1])
                /\ Customer = AsIdentifier(TokensBefore[2])

\* The identifiers were read before the first of two anchor lines.
C28_Witness ==
    /\ md_pc = "returned"
    /\ md_pages = <<PageText(<<T_two_tokens, T_anchor_mixed, T_anchor>>)>>
    /\ Product = <<"A", "B", "C", "1", "2", "3">>
    /\ Customer = <<"T", "O", "Y", "O", "T", "A">>

(***************************************************************************)
(* Documents for the scope of the DeletionSet: every page holds the header *)
(* and row 12, and differs in its marks, all of them in the gutter: none,  *)
(* a red line beside 12, a red glyph beside 12.1, a red curve beside 7, a  *)
(* black line beside 12.                                                   *)
(***************************************************************************)
MarksScope ==
    { {},
      { Mark("line", TRUE, 50, <<"1", "2">>) },
      { Mark("char", TRUE, 50, <<"1", "2", ".", "1">>) },
      { Mark("curve", TRUE, 50, <<"7">>) },
      { Mark("line", FALSE, 50, <<"1", "2">>) } }

PagesScope == { Page(m, <<T_header, T_row12>>) : m \in MarksScope }

RowsScope ==
    { T_row12,
      MkRow(<<"1", "2", ".", "3">>, 2, <<"P", "2">>, T_bracket, <<"1">>, E, E),
      MkRow(<<"7">>, 1, <<"P", "3">>, T_bracket, <<"1">>, E, E) }

NextScope == OpenPage(PagesScope) \/ ProcessRow(RowsScope) \/ Return

SpecScope == InitParser /\ [][NextScope]_vars

\* C29: the DeletionSet is computed anew from the marks of each page, and a
\* row that would yield an entry is dropped exactly when its leading integer
\* is flagged by a mark of the page the row is on, whatever was flagged on
\* the pages before.
C29_PageScoped ==
    [][/\ (gen = "later" /\ npages' = npages + 1)
            => deleted_idxs' = GutterNumbers(page'.marks)
       /\ (NameIsBuilt /\ RowPartName(row', cmap) # << >>)
            => (entries' = entries <=> LeadingIntFlagged(row', GutterNumbers(page.marks)))]_vars

\* Two pages, each with row 12 alone: the second page has no mark and its
\* row 12 gave the only entry, so row 12 of the first page was dropped for
\* the mark that page had.
C29_Witness ==
    /\ gen = "later"
    /\ npages = 2
    /\ nrows = 2
    /\ pending = << >>
    /\ page.marks = {}
    /\ deleted_idxs = {}
    /\ row = T_row12
    /\ Len(entries) = 1

\* The pair that identifies a level-1 part.
Pair(it) == <<Ents(it[1])[it[2]].part_number, Ents(it[1])[it[2]].note_norm>>

\* C30: the key strings tell the parts apart: two level-1 entries with
\* different (part_number, note_norm) pairs never get the same key string,
\* and the key string of a level-1 entry is never that of a deeper-level
\* entry, whatever the texts hold.
C30_KeysInjective ==
    \A a, b \in Items :
        /\ (~Deeper(a[1], a[2]) /\ ~Deeper(b[1], b[2]) /\ Pair(a) # Pair(b))
               => KeyAt(a[1], a[2]) # KeyAt(b[1], b[2])
        /\ (~Deeper(a[1], a[2]) /\ Deeper(b[1], b[2]))
               => KeyAt(a[1], a[2]) # KeyAt(b[1], b[2])

====
